---- MODULE Spec2Model ----
(***************************************************************************)
(* A model of kerinin/hammer, a Hamming distance search index (HmSearch).  *)
(*                                                                         *)
(*   Partitioning  src/partitioning.go                                     *)
(*   Partition     src/db/partition.go (the sync.RWMutex / map variant,    *)
(*                 lines 164-324)                                          *)
(*   Key           src/db/key.go                                           *)
(*   MapKV         src/db/map_kv.go                                        *)
(*                                                                         *)
(* A key is an object: the index stores the object it was given and Find   *)
(* returns stored objects, keyed by identity (a Go map over *big.Int, or   *)
(* over Key{value *big.Int}), while insertKey/removeKey compare by value   *)
(* (Key.Cmp).  A key object is the record [bits, id].                      *)
(***************************************************************************)
EXTENDS Integers, Sequences, FiniteSets, TLC

\* ------------------------------------------------------------------ bounds

\* Largest key width B of a modelled index (widths 1..MaxBits).
MaxBits == 3
\* Largest tolerance k of a modelled index (tolerances 0..MaxTol).
MaxTol == 2
\* Number of distinct key objects a caller may hold for one bit pattern.
MaxObj == 2
\* Largest number of keys the sequential callers keep indexed at once.
MaxKeys == 2
\* Largest key value the callers insert or remove.
MaxKeyVal == 2
\* Number of concurrent callers (goroutines).
MaxThreads == 2
\* Largest number of calls the concurrent callers start altogether.
MaxCalls == 3
\* Largest key width and tolerance of an index under concurrent callers.
MaxConcBits == 1
MaxConcTol == 1
\* Largest key width and tolerance NewPartitioning is called with on its own.
MaxGeomBits == 32
MaxGeomTol == 8
\* Largest bucket key and largest key value a bucket store is called with on its own.
MaxBucket == 1
MaxStoreKeyVal == 1
\* Largest capacity an LRU bucket store is built with.
MaxLru == 2
\* Largest number of keys in one add request, the largest scalar in it, and
\* the largest key width and tolerance of the index behind the server.
MaxBatch == 3
MaxBatchVal == 1
MaxBatchBits == 2
MaxBatchTol == 1
\* the index of the callers that insert keys far apart: its width and its
\* largest tolerance
\* the calls the goroutines sharing one LRU bucket store make
MaxLruCalls == 2
\* the index over LRU stores: its width, tolerance, largest capacity and the
\* calls its callers make
MaxIdxBits == 4
MaxIdxTol == 2
MaxIdxLru == 3
MaxIdxCalls == 6
\* the web requests of one database key and the largest scalar they carry
MaxRequests == 3
MaxReqVal == 1
\* Key calls on their own: the calls made, the shift, the width of the mask,
\* the number of permutations and the bits compared
MaxKeyCalls == 2
MaxShift == 2
MaxMaskBits == 3
MaxPermCount == 3
MaxKeyWidth == 10
MaxWideBits == 9
MaxWideTol == 9

VARIABLES
    bits,        \* Partitioning.bits
    tolerance,   \* Partitioning.tolerance
    store,       \* the bucket store in use: "rwmap" | "mapkv" | "lrukv" | "setkv"
    zero_kv,     \* zero_kv[i]: Partition i's zero-table, bucket key -> slice of keys
    one_kv,      \* one_kv[i]:  Partition i's one-table
    last,        \* the sequential caller's last completed call
    lastIns,     \* bit patterns whose last sequential operation was Insert
    toggles,     \* TRUE while every sequential call so far was a toggle
    removed,     \* bit patterns a sequential Remove was called with
    pc,          \* pc[t]: the call goroutine t is running, its position in it and
                 \* the copy of the partition it works on (mutexes zm and om)
    zero_mutex,  \* zero_mutex[i]: the zero_mutex of element i of the partition
                 \* list, [w: writer or 0, r: readers]
    one_mutex,   \* one_mutex[i]:  the one_mutex of element i
    calls,       \* number of calls the goroutines have started
    started,     \* key objects some goroutine has called Insert with
    built,       \* what a call of NewPartitioning(bits, tolerance) returned
    kvstore,     \* a bucket store on its own: bucket key -> its keys
    recent,      \* the bucket keys of an LRU store, most recently used first; of an
                 \* index over LRU stores [zero, one]: the same per partition
    lru_size,    \* the capacity of an LRU store, 0 where no store stands alone
    kvcall,      \* the last call of that store: [op, k, v, ret, before]
    batch,       \* the last add request handled:
                 \* [called, request, status, response, pre]
    databases,   \* var databases, for one database key: [reg: the Partitioning
                 \* registered or 0, made: the number created, keys: their keys]
    requests,    \* the web requests: [run: per goroutine the request it handles,
                 \* added: scalars of completed adds, deleted: scalars of deletes]
    heap,        \* the big.Int values allocated: heap[a] is the value at address a,
                 \* and a Key is the address its value field points to
    keycall      \* the last call on a Key: [op, k, shift, mask, count, ret, before]

tables == <<bits, tolerance, store, zero_kv, one_kv>>
storevars == <<kvstore, recent, lru_size, kvcall>>
webvars == <<databases, requests>>
keyvars == <<heap, keycall>>
purevars == <<built, storevars, batch, webvars, keyvars>>
seqvars == <<last, lastIns, toggles, removed, purevars>>
concvars == <<pc, zero_mutex, one_mutex, calls, started>>
vars == <<tables, seqvars, concvars>>

\* ------------------------------------------------------- big.Int arithmetic

Range(s) == {s[i] : i \in DOMAIN s}

\* big.Int.Bit(i)
Bit(v, i) == (v \div (2 ^ i)) % 2

\* big.Int.SetBit(v, i, b)
SetBit(v, i, b) == v - Bit(v, i) * (2 ^ i) + b * (2 ^ i)

\* big.Int.Rsh
Rsh(v, s) == v \div (2 ^ s)

RECURSIVE And(_, _)
\* big.Int.And
And(a, b) ==
    IF a = 0 \/ b = 0 THEN 0
    ELSE (a % 2) * (b % 2) + 2 * And(a \div 2, b \div 2)

RECURSIVE Xor(_, _)
\* big.Int.Xor
Xor(a, b) ==
    IF a = 0 THEN b
    ELSE IF b = 0 THEN a
    ELSE (((a % 2) + (b % 2)) % 2) + 2 * Xor(a \div 2, b \div 2)

RECURSIVE PopCountBigInt(_)
\* mathutil.PopCountBigInt
PopCountBigInt(v) == IF v = 0 THEN 0 ELSE (v % 2) + PopCountBigInt(v \div 2)

\* hamming(x, y): popcount of the xor
hamming(x, y) == PopCountBigInt(Xor(x, y))

\* ------------------------------------------------------------------- Key

\* The keys of exactly w bits.
WidthKeys(w) == 0 .. (2 ^ w) - 1

\* The keys the sequential callers insert and remove.  The index does not
\* check a key's width (the tests index 8-bit keys under bits = 4), so for a
\* narrow index some of these keys are wider than bits.
UpdateObjs == [bits : 0 .. MaxKeyVal, id : 1 .. MaxObj]

\* The keys the sequential callers query: every key of the index's width and
\* every key they insert.  Find neither stores nor returns its argument, so
\* one object per bit pattern is enough.
QueryObjs(w) == [bits : WidthKeys(w) \cup (0 .. MaxKeyVal), id : {1}]

\* a comparison of the key objects rather than of their values
CmpSame(k, other) == k = other

\* Key.Cmp(other) == 0
CmpEq(k, other) == k.bits = other.bits

RECURSIVE maskBytes(_)
\* Partition.maskBytes: bits 0 .. mask-1 set
maskBytes(mask) == IF mask = 0 THEN 0 ELSE SetBit(maskBytes(mask - 1), mask - 1, 1)

\* Key.Transform(shift, mask): (key >> shift) & mask, a new value
Transform(v, shift, mask) == And(Rsh(v, shift), mask)

\* Key.Permutations(count): element i+1 is the value with bit i flipped
KeyPermutations(v, count) ==
    [n \in 1 .. count |->
        IF Bit(v, n - 1) = 0 THEN SetBit(v, n - 1, 1) ELSE SetBit(v, n - 1, 0)]

RECURSIVE Bytes(_)
\* big.Int.Bytes: the absolute value as a big-endian byte slice
Bytes(v) == IF v = 0 THEN <<>> ELSE Append(Bytes(v \div 256), v % 256)

RECURSIVE SetBytes(_)
\* big.Int.SetBytes: the value of a big-endian byte slice
SetBytes(b) ==
    IF b = <<>> THEN 0
    ELSE 256 * SetBytes(SubSeq(b, 1, Len(b) - 1)) + b[Len(b)]

\* a Transform that works on the receiver's own big.Int instead of a copy
TransformKeyShared(h, k, shift, mask) ==
    [heap |-> [h EXCEPT ![k] = And(Rsh(h[k], shift), mask)], ret |-> <<k>>]

\* Key.Transform(shift, mask) on the heap h, k the receiver's value:
\* transformed := big.NewInt(0); transformed.SetBytes(k.value.Bytes());
\* transformed.Rsh(transformed, shift); transformed.And(transformed, mask)
TransformKey(h, k, shift, mask) ==
    LET transformed == Len(h) + 1
        h0 == Append(h, 0)
        h1 == [h0 EXCEPT ![transformed] = SetBytes(Bytes(h0[k]))]
        h2 == [h1 EXCEPT ![transformed] = Rsh(@, shift)]
        h3 == [h2 EXCEPT ![transformed] = And(@, mask)]
    IN  [heap |-> h3, ret |-> <<transformed>>]

RECURSIVE PermutationsKey(_, _, _)
\* Key.Permutations(count) on the heap h: for i below count a new big.Int,
\* SetBytes(k.value.Bytes()), then SetBit(permutation, i, 1 or 0) by
\* k.value.Bit(i)
PermutationsKey(h, k, count) ==
    IF count = 0 THEN [heap |-> h, ret |-> <<>>]
    ELSE LET r == PermutationsKey(h, k, count - 1)
             i == count - 1
             permutation == Len(r.heap) + 1
             h0 == Append(r.heap, 0)
             h1 == [h0 EXCEPT ![permutation] = SetBytes(Bytes(h0[k]))]
             h2 == [h1 EXCEPT ![permutation] =
                       IF Bit(h1[k], i) = 0 THEN SetBit(@, i, 1) ELSE SetBit(@, i, 0)]
         IN  [heap |-> h2, ret |-> Append(r.ret, permutation)]

\* Key.Int(size): the value narrowed to uint8 / uint16 / uint32 / uint64.
\* Every value of this model is below 2^16, where the two wider casts are the identity.
KeyInt(v, size) ==
    IF size <= 8 THEN v % (2 ^ 8)
    ELSE IF size <= 16 THEN v % (2 ^ 16)
    ELSE v

\* --------------------------------------------------------- NewPartitioning

\* the switch with one partition per tolerated bit, at most one per key bit
\* and at least one
PartitionCountK(b, t) ==
    IF t = 0 \/ b = 0 THEN 1
    ELSE IF t > b THEN b
    ELSE t

\* the switch of NewPartitioning
PartitionCount(b, t) ==
    IF t = 0 THEN 1
    ELSE IF t > b THEN (b + 3) \div 2
    ELSE (t + 3) \div 2

\* ceil(bits / partition_count)
HeadWidth(b, t) == (b + PartitionCount(b, t) - 1) \div PartitionCount(b, t)
\* floor(bits / partition_count)
TailWidth(b, t) == b \div PartitionCount(b, t)
\* no partition takes the wider width
HeadCountNone(b, t) == 0

HeadCount(b, t) == b % PartitionCount(b, t)

\* the partition list: [shift, mask] per partition, heads first
NewPartitioning(b, t) ==
    [i \in 1 .. PartitionCount(b, t) |->
        IF i <= HeadCount(b, t)
        THEN [shift |-> (i - 1) * HeadWidth(b, t), mask |-> HeadWidth(b, t)]
        ELSE [shift |-> HeadCount(b, t) * HeadWidth(b, t)
                        + (i - 1 - HeadCount(b, t)) * TailWidth(b, t),
              mask |-> TailWidth(b, t)]]

partitions == NewPartitioning(bits, tolerance)

\* NewPartition: two empty maps
EmptyKV == [k \in {} |-> <<>>]

\* the sub-word of a key value in partition p
SubWord(p, v) == Transform(v, p.shift, maskBytes(p.mask))

\* ------------------------------------------------------------ bucket stores

\* the slice with element i removed (copy(s[i:], s[i+1:]) then s[:len-1])
DeleteAt(s, i) == [n \in 1 .. Len(s) - 1 |-> IF n < i THEN s[n] ELSE s[n + 1]]

\* index of the first element equal (Cmp) to value, 0 when there is none
FirstIndex(s, value) ==
    IF \E i \in DOMAIN s : CmpEq(s[i], value)
    THEN CHOOSE i \in DOMAIN s :
            CmpEq(s[i], value) /\ \A j \in 1 .. i - 1 : ~CmpEq(s[j], value)
    ELSE 0

\* insertKey storing a key made of the bucket's sub-word in place of the caller's key
insertKeyBucket(kv, key, value) ==
    IF key \in DOMAIN kv
    THEN IF FirstIndex(kv[key], value) # 0
         THEN [kv |-> kv, ok |-> FALSE]
         ELSE [kv |-> [kv EXCEPT ![key] = Append(kv[key], [value EXCEPT !.bits = key])],
               ok |-> TRUE]
    ELSE [kv |-> (key :> <<[value EXCEPT !.bits = key]>>) @@ kv, ok |-> TRUE]

\* insertKey(kv, key, value): [kv, ok]
insertKey(kv, key, value) ==
    IF key \in DOMAIN kv
    THEN IF FirstIndex(kv[key], value) # 0
         THEN [kv |-> kv, ok |-> FALSE]
         ELSE [kv |-> [kv EXCEPT ![key] = Append(kv[key], value)], ok |-> TRUE]
    ELSE [kv |-> (key :> <<value>>) @@ kv, ok |-> TRUE]

\* removeKey making the bucket it does not find, as insertKey does
removeKeyMake(kv, key, value) ==
    IF key \in DOMAIN kv
    THEN IF FirstIndex(kv[key], value) # 0
         THEN [kv |-> [kv EXCEPT ![key] = DeleteAt(kv[key], FirstIndex(kv[key], value))],
               ok |-> TRUE]
         ELSE [kv |-> kv, ok |-> FALSE]
    ELSE [kv |-> (key :> <<>>) @@ kv, ok |-> FALSE]

\* removeKey(kv, key, value) of the RWMutex variant: the bucket stays, possibly empty
removeKey(kv, key, value) ==
    IF key \in DOMAIN kv /\ FirstIndex(kv[key], value) # 0
    THEN [kv |-> [kv EXCEPT ![key] = DeleteAt(kv[key], FirstIndex(kv[key], value))],
          ok |-> TRUE]
    ELSE [kv |-> kv, ok |-> FALSE]

\* MapKV.Add(key, value)
MapKVAdd(kv, key, value) ==
    IF key \in DOMAIN kv
    THEN IF FirstIndex(kv[key], value) # 0
         THEN [kv |-> kv, ok |-> FALSE]
         ELSE [kv |-> [kv EXCEPT ![key] = Append(kv[key], value)], ok |-> TRUE]
    ELSE [kv |-> (key :> <<value>>) @@ kv, ok |-> TRUE]

\* MapKV.Remove reporting a bucket of length 1 removed without deleting it
MapKVRemoveKept(kv, key, value) ==
    IF key \in DOMAIN kv
    THEN IF Len(kv[key]) = 1
         THEN [kv |-> kv, ok |-> TRUE]
         ELSE IF FirstIndex(kv[key], value) # 0
              THEN [kv |-> [kv EXCEPT ![key] =
                              DeleteAt(kv[key], FirstIndex(kv[key], value))],
                    ok |-> TRUE]
              ELSE [kv |-> kv, ok |-> FALSE]
    ELSE [kv |-> kv, ok |-> FALSE]

\* MapKV.Remove(key, value): a bucket of length 1 is deleted whatever it holds
MapKVRemove(kv, key, value) ==
    IF key \in DOMAIN kv
    THEN IF Len(kv[key]) = 1
         THEN [kv |-> [k \in DOMAIN kv \ {key} |-> kv[k]], ok |-> TRUE]
         ELSE IF FirstIndex(kv[key], value) # 0
              THEN [kv |-> [kv EXCEPT ![key] =
                              DeleteAt(kv[key], FirstIndex(kv[key], value))],
                    ok |-> TRUE]
              ELSE [kv |-> kv, ok |-> FALSE]
    ELSE [kv |-> kv, ok |-> FALSE]

\* KV.Add / KV.Remove: the store the partition was built with
KVAdd(st, kv, key, value) ==
    IF st = "mapkv" THEN MapKVAdd(kv, key, value) ELSE insertKey(kv, key, value)
KVRemove(st, kv, key, value) ==
    IF st = "mapkv" THEN MapKVRemove(kv, key, value) ELSE removeKey(kv, key, value)

\* lru.Cache: the bucket keys with key moved to the front
LruTouch(r, key) == <<key>> \o SelectSeq(r, LAMBDA x : x # key)

\* lru.Cache.Get(key) on c = [kv, recent, size]: a hit becomes the most recent
LruCacheGet(c, key) ==
    IF key \in DOMAIN c.kv THEN [c EXCEPT !.recent = LruTouch(c.recent, key)] ELSE c

\* lru.Cache.Add(key, val): the entry becomes the most recent; a new entry
\* beyond the capacity evicts the least recently used one
LruCacheAdd(c, key, val) ==
    IF key \in DOMAIN c.kv
    THEN [c EXCEPT !.kv[key] = val, !.recent = LruTouch(c.recent, key)]
    ELSE IF Len(c.recent) + 1 > c.size
         THEN LET keep == SubSeq(c.recent, 1, c.size - 1)
              IN  [c EXCEPT !.kv = (key :> val) @@ [k \in Range(keep) |-> c.kv[k]],
                            !.recent = <<key>> \o keep]
         ELSE [c EXCEPT !.kv = (key :> val) @@ c.kv, !.recent = <<key>> \o c.recent]

\* lru.Cache.Remove(key)
LruCacheRemove(c, key) ==
    [c EXCEPT !.kv = [k \in DOMAIN c.kv \ {key} |-> c.kv[k]],
              !.recent = SelectSeq(c.recent, LAMBDA x : x # key)]

\* the cache c with the result ok of the call that left it
WithOk(c, ok) == [kv |-> c.kv, recent |-> c.recent, ok |-> ok]

\* LruKV.Add(key, value): [kv, recent, ok]
LruKVAdd(c, key, value) ==
    LET g == LruCacheGet(c, key)
    IN  IF key \in DOMAIN c.kv
        THEN IF FirstIndex(c.kv[key], value) # 0
             THEN WithOk(g, FALSE)
             ELSE WithOk(LruCacheAdd(g, key, Append(c.kv[key], value)), TRUE)
        ELSE WithOk(LruCacheAdd(g, key, <<value>>), TRUE)

\* LruKV.Remove(key, value): a bucket of length 1 is removed whatever it holds
LruKVRemove(c, key, value) ==
    LET g == LruCacheGet(c, key)
    IN  IF key \in DOMAIN c.kv
        THEN IF Len(c.kv[key]) = 1
             THEN WithOk(LruCacheRemove(g, key), TRUE)
             ELSE IF FirstIndex(c.kv[key], value) # 0
                  THEN WithOk(LruCacheAdd(g, key,
                                  DeleteAt(c.kv[key], FirstIndex(c.kv[key], value))),
                              TRUE)
                  ELSE WithOk(g, FALSE)
        ELSE WithOk(g, FALSE)

\* the set-based MapKV.Add(key, value): the bucket is a map[Key]bool, whose
\* keys are Key structs compared by their *big.Int pointer (the object)
SetKVAdd(kv, key, value) ==
    IF key \in DOMAIN kv
    THEN IF value \in kv[key]
         THEN [kv |-> kv, ok |-> FALSE]
         ELSE [kv |-> [kv EXCEPT ![key] = @ \cup {value}], ok |-> TRUE]
    ELSE [kv |-> (key :> {value}) @@ kv, ok |-> TRUE]

\* the set-based MapKV.Remove(key, value): the bucket goes with its last member
SetKVRemove(kv, key, value) ==
    IF key \in DOMAIN kv /\ value \in kv[key]
    THEN IF kv[key] = {value}
         THEN [kv |-> [k \in DOMAIN kv \ {key} |-> kv[k]], ok |-> TRUE]
         ELSE [kv |-> [kv EXCEPT ![key] = @ \ {value}], ok |-> TRUE]
    ELSE [kv |-> kv, ok |-> FALSE]

\* Add of the bucket store st standing alone: [kv, recent, ok]
StoreKVAdd(st, c, key, value) ==
    IF st = "lrukv" THEN LruKVAdd(c, key, value)
    ELSE IF st = "setkv"
         THEN [kv |-> SetKVAdd(c.kv, key, value).kv, recent |-> c.recent,
               ok |-> SetKVAdd(c.kv, key, value).ok]
         ELSE [kv |-> MapKVAdd(c.kv, key, value).kv, recent |-> c.recent,
               ok |-> MapKVAdd(c.kv, key, value).ok]

\* Remove of the bucket store st standing alone: [kv, recent, ok]
StoreKVRemove(st, c, key, value) ==
    IF st = "lrukv" THEN LruKVRemove(c, key, value)
    ELSE IF st = "setkv"
         THEN [kv |-> SetKVRemove(c.kv, key, value).kv, recent |-> c.recent,
               ok |-> SetKVRemove(c.kv, key, value).ok]
         ELSE [kv |-> MapKVRemove(c.kv, key, value).kv, recent |-> c.recent,
               ok |-> MapKVRemove(c.kv, key, value).ok]

\* ---------------------------------------------------------------- Partition

\* Partition.Insert without its loop over the permutations
InsertPermutedNone(st, kv, perms, n, size, value) == kv

RECURSIVE InsertPermuted(_, _, _, _, _, _)
\* the loop of Partition.Insert over the first n permutations: insertKey into one_kv
InsertPermuted(st, kv, perms, n, size, value) ==
    IF n = 0 THEN kv
    ELSE KVAdd(st, InsertPermuted(st, kv, perms, n - 1, size, value),
               KeyInt(perms[n], size), value).kv

\* Partition.Remove without its loop over the permutations
RemovePermutedNone(st, kv, perms, n, size, value) == kv

RECURSIVE RemovePermuted(_, _, _, _, _, _)
\* the loop of Partition.Remove over the first n permutations: removeKey from one_kv
RemovePermuted(st, kv, perms, n, size, value) ==
    IF n = 0 THEN kv
    ELSE KVRemove(st, RemovePermuted(st, kv, perms, n - 1, size, value),
                  KeyInt(perms[n], size), value).kv

\* Partition.Insert(key) run alone: [zero, one, ok]
PartitionInsert(st, p, zkv, okv, key) ==
    LET tk == SubWord(p, key.bits)
        z  == KVAdd(st, zkv, KeyInt(tk, p.mask), key)
    IN  IF z.ok
        THEN [zero |-> z.kv,
              one  |-> InsertPermuted(st, okv, KeyPermutations(tk, p.mask),
                                      p.mask, p.mask, key),
              ok   |-> TRUE]
        ELSE [zero |-> z.kv, one |-> okv, ok |-> FALSE]

\* Partition.Remove(key) run alone: [zero, one, ok]
PartitionRemove(st, p, zkv, okv, key) ==
    LET tk == SubWord(p, key.bits)
        z  == KVRemove(st, zkv, KeyInt(tk, p.mask), key)
    IN  IF z.ok
        THEN [zero |-> z.kv,
              one  |-> RemovePermuted(st, okv, KeyPermutations(tk, p.mask),
                                      p.mask, p.mask, key),
              ok   |-> TRUE]
        ELSE [zero |-> z.kv, one |-> okv, ok |-> FALSE]

\* one iteration of the first loop of Partition.Find: found_keys[source_key] = 1
\* for every key of the one-table bucket of the permuted sub-word
FindOne(found, okv, bucket) ==
    IF bucket \in DOMAIN okv
    THEN [k \in Range(okv[bucket]) |-> 1] @@ found
    ELSE found

\* the zero-table read of Partition.Find keeping the mark a key already has
FindZeroKeep(found, zkv, bucket) ==
    IF bucket \in DOMAIN zkv
    THEN found @@ [k \in Range(zkv[bucket]) |-> 0]
    ELSE found

\* the zero-table read of Partition.Find: found_keys[source_key] = 0
FindZero(found, zkv, bucket) ==
    IF bucket \in DOMAIN zkv
    THEN [k \in Range(zkv[bucket]) |-> 0] @@ found
    ELSE found

RECURSIVE FindPermuted(_, _, _, _)
\* the first loop of Partition.Find over the first n permutations
FindPermuted(okv, perms, n, size) ==
    IF n = 0 THEN [k \in {} |-> 0]
    ELSE FindOne(FindPermuted(okv, perms, n - 1, size), okv, KeyInt(perms[n], size))

\* Partition.Find(key) run alone: key object -> 0 (exact match) | 1 (1-match)
PartitionFind(p, zkv, okv, v) ==
    LET tk == SubWord(p, v)
    IN  FindZero(FindPermuted(okv, KeyPermutations(tk, p.mask), p.mask, p.mask),
                 zkv, KeyInt(tk, p.mask))

\* -------------------------------------------------------------- Partitioning

\* the tally loop of Partitioning.Find for one partition's p_candidates:
\* candidates[k] = <<exact matches, 1-matches>>
AddCandidates(cands, found) ==
    [k \in DOMAIN found |->
        LET current == IF k \in DOMAIN cands THEN cands[k] ELSE <<0, 0>>
        IN  IF found[k] = 0
            THEN <<current[1] + 1, current[2]>>
            ELSE <<current[1], current[2] + 1>>] @@ cands

\* the admission test with the odd-tolerance rule applied to every tolerance
AdmittedOdd(t, v) == (v[1] >= 1 /\ (v[1] + v[2]) >= 2) \/ v[2] >= 3

\* the admission test without the case of three 1-matches of an odd tolerance
AdmittedExact(t, v) ==
    IF t % 2 = 0
    THEN v[1] >= 1 \/ v[2] >= 2
    ELSE v[1] >= 1 /\ (v[1] + v[2]) >= 2

\* the admission test of Partitioning.Find on a tally v under tolerance t
Admitted(t, v) ==
    IF t % 2 = 0
    THEN v[1] >= 1 \/ v[2] >= 2
    ELSE (v[1] >= 1 /\ (v[1] + v[2]) >= 2) \/ v[2] >= 3

\* the second half of Partitioning.Find without the test h <= tolerance
MatchesUnfiltered(t, cands, q) ==
    [k \in {c \in DOMAIN cands : Admitted(t, cands[c])} |-> hamming(k.bits, q)]

\* the second half of Partitioning.Find: matches[k] = h for the admitted
\* candidates with h = hamming(k, key) <= tolerance
Matches(t, cands, q) ==
    [k \in {c \in DOMAIN cands :
                Admitted(t, cands[c]) /\ hamming(c.bits, q) <= t} |->
        hamming(k.bits, q)]

RECURSIVE Gather(_, _, _, _, _)
\* the first loop of Partitioning.Find over the first n partitions
Gather(ps, zkvs, okvs, q, n) ==
    IF n = 0 THEN [k \in {} |-> <<0, 0>>]
    ELSE AddCandidates(Gather(ps, zkvs, okvs, q, n - 1),
                       PartitionFind(ps[n], zkvs[n], okvs[n], q))

\* Partitioning.Find(key) run alone on the current index
PartitioningFind(q) ==
    Matches(tolerance, Gather(partitions, zero_kv, one_kv, q, Len(partitions)), q)

\* Partitioning.Insert(key) run alone on the tables zkvs, okvs of the
\* partitions ps: per partition [zero, one, ok]
PartitioningInsertOn(st, ps, zkvs, okvs, key) ==
    [i \in DOMAIN ps |-> PartitionInsert(st, ps[i], zkvs[i], okvs[i], key)]

\* Partitioning.Insert(key) run alone on the current index
PartitioningInsert(key) ==
    PartitioningInsertOn(store, partitions, zero_kv, one_kv, key)

\* Partitioning.Remove(key) run alone: per partition [zero, one, ok]
PartitioningRemove(key) ==
    [i \in DOMAIN partitions |->
        PartitionRemove(store, partitions[i], zero_kv[i], one_kv[i], key)]

\* ------------------------------------------------------ what the index holds

\* the key objects in some bucket of table kvs (one map per partition)
Stored(kvs) ==
    UNION {Range(kvs[i][b]) : <<i, b>> \in
              UNION {{<<i, b>> : b \in DOMAIN kvs[i]} : i \in DOMAIN kvs}}

\* the bit patterns found in some zero-table or one-table bucket
IndexedBits == {k.bits : k \in Stored(zero_kv) \cup Stored(one_kv)}

\* the error result of Partition.Find, Partition.Insert and Partition.Remove:
\* every return statement passes nil
PartitionErr(p, key) == FALSE

\* the error result of Partitioning.Find, Insert and Remove: the first
\* partition error, nil when no partition reports one
PartitioningErr(key) == \E i \in DOMAIN partitions : PartitionErr(partitions[i], key)

\* ------------------------------------------------------- sequential callers

NoKey == [bits |-> 0, id |-> 1]
NoResult == [k \in {} |-> 0]

\* no bucket exists in any table
NoBuckets ==
    \A i \in DOMAIN partitions : DOMAIN zero_kv[i] = {} /\ DOMAIN one_kv[i] = {}

\* What a call with key x follows: "new" when the calls just before it are a
\* run of Insert calls of keys equal to x whose first began with x in no
\* bucket, "dup" when that run began with x in a bucket, "none" otherwise.
Prior(x) ==
    IF last.op = "insert" /\ last.key.bits = x.bits
    THEN IF last.prior # "none" THEN last.prior
         ELSE IF last.pre THEN "dup" ELSE "new"
    ELSE "none"

\* the record of a completed call: its result and what the caller saw before
Called(op, key, ret, res, chg) ==
    [op |-> op, key |-> key, ret |-> ret, res |-> res, chg |-> chg,
     err |-> PartitioningErr(key),
     pre |-> key.bits \in IndexedBits, emp |-> NoBuckets, prior |-> Prior(key)]

\* ------------------------------------------------------------- goroutines

Threads == 1 .. MaxThreads

NoCands == [k \in {} |-> <<0, 0>>]

\* sync.RWMutex: unlocked
FreeMutex == [w |-> 0, r |-> {}]

\* a call that has read no bucket
NoSnap == [ok |-> FALSE, vals |-> <<>>]

\* a goroutine that is running no call
Returned(op, key, any, res) ==
    [op |-> op, key |-> key, at |-> "ret", part |-> 0, n |-> 0,
     found |-> NoResult, cands |-> NoCands, any |-> any, res |-> res,
     zm |-> FreeMutex, om |-> FreeMutex, snap |-> NoSnap]

\* the state of an index that no goroutine has called yet
IdleThreads ==
    /\ pc = [t \in Threads |-> Returned("none", NoKey, FALSE, NoResult)]
    /\ zero_mutex = [i \in 1 .. PartitionCount(bits, tolerance) |-> FreeMutex]
    /\ one_mutex = [i \in 1 .. PartitionCount(bits, tolerance) |-> FreeMutex]
    /\ calls = 0
    /\ started = {}

\* NewPartitioning: every table empty
EmptyTables(st) ==
    /\ store = st
    /\ zero_kv = [i \in 1 .. PartitionCount(bits, tolerance) |-> EmptyKV]
    /\ one_kv = [i \in 1 .. PartitionCount(bits, tolerance) |-> EmptyKV]

\* no Key was made and no call on a Key
NoKeyCall ==
    [op |-> "none", k |-> 0, shift |-> 0, mask |-> 0, count |-> 0,
     ret |-> <<>>, before |-> <<>>]

\* no big.Int was allocated
NoKeys ==
    /\ heap = <<>>
    /\ keycall = NoKeyCall

\* a goroutine of the web server that handles no request
NoRequest ==
    [op |-> "none", scalar |-> 0, at |-> "ret", db |-> 0, seen |-> {}, found |-> FALSE]

\* Server(): databases is empty and no request has come in
NoRequests ==
    /\ databases = [reg |-> 0, made |-> 0, keys |-> <<>>]
    /\ requests = [run |-> [t \in Threads |-> NoRequest], added |-> {}, deleted |-> {}]

\* no sequential call was made yet
NoCalls ==
    /\ last = [op |-> "none", key |-> NoKey, ret |-> FALSE, res |-> NoResult,
               chg |-> FALSE, err |-> FALSE, pre |-> FALSE, emp |-> TRUE, prior |-> "none"]
    /\ lastIns = {}
    /\ toggles = TRUE
    /\ removed = {}
    /\ built = [done |-> FALSE, err |-> FALSE, partitions |-> <<>>]
    /\ kvstore = EmptyKV
    /\ recent = <<>>
    /\ kvcall = [op |-> "none", k |-> 0, v |-> NoKey, ret |-> FALSE, before |-> EmptyKV]
    /\ batch = [called |-> FALSE, request |-> <<>>, status |-> 0, response |-> <<>>,
                pre |-> {}]
    /\ NoRequests
    /\ NoKeys

InitIndex(st) ==
    /\ bits \in 1 .. MaxBits
    /\ tolerance \in 0 .. MaxTol
    /\ EmptyTables(st)
    /\ NoCalls
    /\ lru_size = 0
    /\ IdleThreads

\* a caller runs Partitioning.Insert(key) to completion
Insert(key) ==
    /\ key.bits \in IndexedBits \/ Cardinality(IndexedBits) < MaxKeys
    /\ \E r \in {PartitioningInsert(key)} :
           /\ zero_kv' = [i \in DOMAIN r |-> r[i].zero]
           /\ one_kv' = [i \in DOMAIN r |-> r[i].one]
           /\ last' = Called("insert", key, \E i \in DOMAIN r : r[i].ok, NoResult,
                             \E i \in DOMAIN r :
                                 r[i].zero # zero_kv[i] \/ r[i].one # one_kv[i])
    /\ lastIns' = lastIns \cup {key.bits}
    /\ toggles' = (toggles /\ key.bits \notin lastIns)
    /\ UNCHANGED <<bits, tolerance, store, removed, purevars, concvars>>

\* a caller runs Partitioning.Remove(key) to completion
Remove(key) ==
    /\ \E r \in {PartitioningRemove(key)} :
           /\ zero_kv' = [i \in DOMAIN r |-> r[i].zero]
           /\ one_kv' = [i \in DOMAIN r |-> r[i].one]
           /\ last' = Called("remove", key, \E i \in DOMAIN r : r[i].ok, NoResult,
                             \E i \in DOMAIN r :
                                 r[i].zero # zero_kv[i] \/ r[i].one # one_kv[i])
    /\ lastIns' = lastIns \ {key.bits}
    /\ toggles' = (toggles /\ key.bits \in lastIns)
    /\ removed' = removed \cup {key.bits}
    /\ UNCHANGED <<bits, tolerance, store, purevars, concvars>>

\* a caller runs Partitioning.Find(key) to completion
Find(key) ==
    /\ last' = Called("find", key, TRUE, PartitioningFind(key.bits), FALSE)
    /\ UNCHANGED <<tables, lastIns, toggles, removed, purevars, concvars>>

Init == InitIndex("rwmap")

Next ==
    \/ \E key \in UpdateObjs : Insert(key)
    \/ \E key \in UpdateObjs : Remove(key)
    \/ \E key \in QueryObjs(bits) : Find(key)

\* sequential callers of an index over the RWMutex-guarded maps
Spec == Init /\ [][Next]_vars

InitKV == InitIndex("mapkv")

\* sequential callers of an index over MapKV stores
SpecKV == InitKV /\ [][Next]_vars

\* ------------------------------------------------- goroutines: one step each

\* the key objects goroutine t presents: every goroutine holds objects of its own
ThreadObjs(t) == [bits : 0 .. MaxKeyVal, id : {t}]

\* where Partition.Find starts in partition i: the permutation loop, or the
\* zero-table read when the sub-word has no bit to flip
FindEntry(i) == IF partitions[i].mask > 0 THEN "one_rlock" ELSE "zero_rlock"

\* for _, partition := range p.partitions: the call c works on a copy of
\* element i of the list, the two mutexes copied with it (the maps are
\* references and stay shared)
Enter(c, i) == [c EXCEPT !.part = i, !.zm = zero_mutex[i], !.om = one_mutex[i]]

\* the tables of its current copy goroutine t holds a lock of
Holds(t) ==
    {tb \in {"zero", "one"} :
        LET m == IF tb = "zero" THEN pc[t].zm ELSE pc[t].om
        IN  m.w = t \/ t \in m.r}

\* RWMutex.Unlock
Unlock(m) == [m EXCEPT !.w = 0]

\* RWMutex.RUnlock by goroutine t
RUnlock(m, t) == [m EXCEPT !.r = @ \ {t}]

\* zero_mutex when only the else branch unlocks it
ZeroUnlockElse(m, ok) == IF ok THEN m ELSE Unlock(m)

\* zero_mutex after the if / else of Partition.Insert and Partition.Remove:
\* both branches unlock it
ZeroUnlock(m, ok) == IF ok THEN Unlock(m) ELSE Unlock(m)

\* the call c returns: its result, and the copy it worked on last as it left it
Return(c, any, res) ==
    [Returned(c.op, c.key, any, res) EXCEPT !.zm = c.zm, !.om = c.om]

\* the loop of Partitioning.Insert / Remove moves on: the next partition, or return
NextPartition(c, any) ==
    IF c.part < Len(partitions)
    THEN [Enter(c, c.part + 1) EXCEPT !.at = "zero_lock", !.any = any, !.n = 0,
                                      !.snap = NoSnap]
    ELSE Return(c, any, NoResult)

\* found_values, ok := (*kv)[key]: what a call keeps of the bucket it read
Snap(kv, key) ==
    IF key \in DOMAIN kv THEN [ok |-> TRUE, vals |-> kv[key]]
    ELSE [ok |-> FALSE, vals |-> <<>>]

\* the map kv with the bucket key as the call read it: the write of insertKey
\* and removeKey starts from found_values, not from the bucket of the moment
Stale(kv, key, snap) ==
    IF snap.ok THEN (key :> snap.vals) @@ kv
    ELSE [k \in DOMAIN kv \ {key} |-> kv[k]]

\* the bucket key of the zero-table for the key of goroutine t's call
ZeroBucket(t) ==
    KeyInt(SubWord(partitions[pc[t].part], pc[t].key.bits), partitions[pc[t].part].mask)

\* the bucket key of the one-table for permutation pc[t].n of goroutine t's call
OneBucket(t) ==
    KeyInt(KeyPermutations(SubWord(partitions[pc[t].part], pc[t].key.bits),
                           partitions[pc[t].part].mask)[pc[t].n],
           partitions[pc[t].part].mask)

\* the permutation loop of Partition.Insert / Remove moves on: the next
\* permutation, or Unlock and return to the loop over the partitions
NextPermutation(c) ==
    IF c.n < partitions[c.part].mask
    THEN [c EXCEPT !.n = c.n + 1, !.at = "one", !.snap = NoSnap]
    ELSE NextPartition([c EXCEPT !.om = Unlock(c.om)], TRUE)

\* goroutine t calls Partitioning.Insert(key)
StartInsert(t, key) ==
    /\ pc[t].at = "ret"
    /\ calls < MaxCalls
    /\ calls' = calls + 1
    /\ started' = started \cup {key}
    /\ pc' = [pc EXCEPT ![t] = [Enter(Returned("insert", key, FALSE, NoResult), 1)
                                   EXCEPT !.at = "zero_lock"]]
    /\ UNCHANGED <<tables, seqvars, zero_mutex, one_mutex>>

\* goroutine t calls Partitioning.Remove(key)
StartRemove(t, key) ==
    /\ pc[t].at = "ret"
    /\ calls < MaxCalls
    /\ calls' = calls + 1
    /\ pc' = [pc EXCEPT ![t] = [Enter(Returned("remove", key, FALSE, NoResult), 1)
                                   EXCEPT !.at = "zero_lock"]]
    /\ UNCHANGED <<tables, seqvars, zero_mutex, one_mutex, started>>

\* goroutine t calls Partitioning.Find(key)
StartFind(t, key) ==
    /\ pc[t].at = "ret"
    /\ calls < MaxCalls
    /\ calls' = calls + 1
    /\ pc' = [pc EXCEPT ![t] = [Enter(Returned("find", key, FALSE, NoResult), 1)
                                   EXCEPT !.at = FindEntry(1), !.n = 1]]
    /\ UNCHANGED <<tables, seqvars, zero_mutex, one_mutex, started>>

\* p.zero_mutex.Lock() of Partition.Insert / Partition.Remove, on the copy
LockZero(t) ==
    /\ pc[t].at = "zero_lock"
    /\ pc[t].zm = FreeMutex
    /\ pc' = [pc EXCEPT ![t].zm.w = t, ![t].at = "zero"]
    /\ UNCHANGED <<tables, seqvars, zero_mutex, one_mutex, calls, started>>

\* p.one_mutex.Lock() of Partition.Insert / Partition.Remove, on the copy
LockOne(t) ==
    /\ pc[t].at = "one_lock"
    /\ pc[t].om = FreeMutex
    /\ pc' = [pc EXCEPT ![t].om.w = t, ![t].at = "one", ![t].n = 1]
    /\ UNCHANGED <<tables, seqvars, zero_mutex, one_mutex, calls, started>>

\* insertKey on zero_kv, its read: the bucket and the search for the key in
\* it; a key that is there ends Partition.Insert through the else branch
InsertZero(t) ==
    /\ pc[t].op = "insert" /\ pc[t].at = "zero"
    /\ \E ok \in {insertKey(zero_kv[pc[t].part], ZeroBucket(t), pc[t].key).ok} :
           pc' = [pc EXCEPT ![t] =
                     IF ok
                     THEN [@ EXCEPT !.at = "zero_write",
                                    !.snap = Snap(zero_kv[pc[t].part], ZeroBucket(t))]
                     ELSE NextPartition([@ EXCEPT !.zm = ZeroUnlock(@, FALSE)], @.any)]
    /\ UNCHANGED <<tables, seqvars, zero_mutex, one_mutex, calls, started>>

\* insertKey on zero_kv, its write: (*kv)[key] = append(found_values, value),
\* then Unlock
InsertZeroWrite(t) ==
    /\ pc[t].op = "insert" /\ pc[t].at = "zero_write"
    /\ zero_kv' = [zero_kv EXCEPT ![pc[t].part] =
                      insertKey(Stale(@, ZeroBucket(t), pc[t].snap),
                                ZeroBucket(t), pc[t].key).kv]
    /\ pc' = [pc EXCEPT ![t].zm = ZeroUnlock(@, TRUE), ![t].at = "one_lock",
                        ![t].snap = NoSnap]
    /\ UNCHANGED <<bits, tolerance, store, one_kv, seqvars, zero_mutex, one_mutex,
                   calls, started>>

\* one iteration of the permutation loop of Partition.Insert, the read of its
\* insertKey; after the last permutation Unlock
InsertOne(t) ==
    /\ pc[t].op = "insert" /\ pc[t].at = "one"
    /\ pc' = [pc EXCEPT ![t] =
                 IF partitions[@.part].mask = 0 THEN NextPermutation(@)
                 ELSE IF insertKey(one_kv[@.part], OneBucket(t), @.key).ok
                 THEN [@ EXCEPT !.at = "one_write",
                                !.snap = Snap(one_kv[pc[t].part], OneBucket(t))]
                 ELSE NextPermutation(@)]
    /\ UNCHANGED <<tables, seqvars, zero_mutex, one_mutex, calls, started>>

\* the write of that insertKey; after the last permutation Unlock
InsertOneWrite(t) ==
    /\ pc[t].op = "insert" /\ pc[t].at = "one_write"
    /\ one_kv' = [one_kv EXCEPT ![pc[t].part] =
                     insertKey(Stale(@, OneBucket(t), pc[t].snap),
                               OneBucket(t), pc[t].key).kv]
    /\ pc' = [pc EXCEPT ![t] = NextPermutation(@)]
    /\ UNCHANGED <<bits, tolerance, store, zero_kv, seqvars, zero_mutex, one_mutex,
                   calls, started>>

\* removeKey on zero_kv, its read: the bucket and the search for the key in
\* it; a key that is not there ends Partition.Remove through the else branch
RemoveZero(t) ==
    /\ pc[t].op = "remove" /\ pc[t].at = "zero"
    /\ \E ok \in {removeKey(zero_kv[pc[t].part], ZeroBucket(t), pc[t].key).ok} :
           pc' = [pc EXCEPT ![t] =
                     IF ok
                     THEN [@ EXCEPT !.at = "zero_write",
                                    !.snap = Snap(zero_kv[pc[t].part], ZeroBucket(t))]
                     ELSE NextPartition([@ EXCEPT !.zm = ZeroUnlock(@, FALSE)], @.any)]
    /\ UNCHANGED <<tables, seqvars, zero_mutex, one_mutex, calls, started>>

\* removeKey on zero_kv, its write: copy, (*kv)[key] = found_values[:len-1],
\* then Unlock
RemoveZeroWrite(t) ==
    /\ pc[t].op = "remove" /\ pc[t].at = "zero_write"
    /\ zero_kv' = [zero_kv EXCEPT ![pc[t].part] =
                      removeKey(Stale(@, ZeroBucket(t), pc[t].snap),
                                ZeroBucket(t), pc[t].key).kv]
    /\ pc' = [pc EXCEPT ![t].zm = ZeroUnlock(@, TRUE), ![t].at = "one_lock",
                        ![t].snap = NoSnap]
    /\ UNCHANGED <<bits, tolerance, store, one_kv, seqvars, zero_mutex, one_mutex,
                   calls, started>>

\* one iteration of the permutation loop of Partition.Remove, the read of its
\* removeKey; after the last permutation Unlock
RemoveOne(t) ==
    /\ pc[t].op = "remove" /\ pc[t].at = "one"
    /\ pc' = [pc EXCEPT ![t] =
                 IF partitions[@.part].mask = 0 THEN NextPermutation(@)
                 ELSE IF removeKey(one_kv[@.part], OneBucket(t), @.key).ok
                 THEN [@ EXCEPT !.at = "one_write",
                                !.snap = Snap(one_kv[pc[t].part], OneBucket(t))]
                 ELSE NextPermutation(@)]
    /\ UNCHANGED <<tables, seqvars, zero_mutex, one_mutex, calls, started>>

\* the write of that removeKey; after the last permutation Unlock
RemoveOneWrite(t) ==
    /\ pc[t].op = "remove" /\ pc[t].at = "one_write"
    /\ one_kv' = [one_kv EXCEPT ![pc[t].part] =
                     removeKey(Stale(@, OneBucket(t), pc[t].snap),
                               OneBucket(t), pc[t].key).kv]
    /\ pc' = [pc EXCEPT ![t] = NextPermutation(@)]
    /\ UNCHANGED <<bits, tolerance, store, zero_kv, seqvars, zero_mutex, one_mutex,
                   calls, started>>

\* p.one_mutex.RLock() of Partition.Find, once per permutation, on the copy
RLockOne(t) ==
    /\ pc[t].at = "one_rlock"
    /\ pc[t].om.w = 0
    /\ pc' = [pc EXCEPT ![t].om.r = @ \cup {t}, ![t].at = "one_read"]
    /\ UNCHANGED <<tables, seqvars, zero_mutex, one_mutex, calls, started>>

\* one iteration of the permutation loop of Partition.Find, then RUnlock
ReadOne(t) ==
    /\ pc[t].at = "one_read"
    /\ \E i \in {pc[t].part} :
           pc' = [pc EXCEPT ![t] =
                  [@ EXCEPT !.found = FindOne(@, one_kv[i], OneBucket(t)),
                            !.n = IF @ < partitions[i].mask THEN @ + 1 ELSE @,
                            !.at = IF pc[t].n < partitions[i].mask
                                   THEN "one_rlock" ELSE "zero_rlock",
                            !.om = RUnlock(@, t)]]
    /\ UNCHANGED <<tables, seqvars, zero_mutex, one_mutex, calls, started>>

\* p.zero_mutex.RLock() of Partition.Find, on the copy
RLockZero(t) ==
    /\ pc[t].at = "zero_rlock"
    /\ pc[t].zm.w = 0
    /\ pc' = [pc EXCEPT ![t].zm.r = @ \cup {t}, ![t].at = "zero_read"]
    /\ UNCHANGED <<tables, seqvars, zero_mutex, one_mutex, calls, started>>

\* the zero-table read of Partition.Find, RUnlock and return to Partitioning.Find:
\* the tally of this partition, then the next partition or the admission loop
ReadZero(t) ==
    /\ pc[t].at = "zero_read"
    /\ \E i \in {pc[t].part} :
       \E c \in {AddCandidates(pc[t].cands,
                     FindZero(pc[t].found, zero_kv[i], ZeroBucket(t)))} :
           pc' = [pc EXCEPT ![t] =
                  IF i < Len(partitions)
                  THEN [Enter(@, i + 1) EXCEPT !.n = 1, !.found = NoResult,
                                               !.cands = c, !.at = FindEntry(i + 1)]
                  ELSE Return([@ EXCEPT !.zm = RUnlock(@, t)], FALSE,
                              Matches(tolerance, c, pc[t].key.bits))]
    /\ UNCHANGED <<tables, seqvars, zero_mutex, one_mutex, calls, started>>

\* the steps of a call goroutine t has started
Run(t) ==
    \/ LockZero(t)
    \/ LockOne(t)
    \/ InsertZero(t)
    \/ InsertZeroWrite(t)
    \/ InsertOne(t)
    \/ InsertOneWrite(t)
    \/ RemoveZero(t)
    \/ RemoveZeroWrite(t)
    \/ RemoveOne(t)
    \/ RemoveOneWrite(t)
    \/ RLockOne(t)
    \/ ReadOne(t)
    \/ RLockZero(t)
    \/ ReadZero(t)

\* the table whose map the next step of goroutine t reads or writes, "none"
\* when that step touches no map
Touches(t) ==
    IF pc[t].at \in {"zero", "zero_write", "zero_read"} THEN "zero"
    ELSE IF pc[t].at \in {"one_write", "one_read"} THEN "one"
    ELSE IF pc[t].at = "one" /\ partitions[pc[t].part].mask > 0 THEN "one"
    ELSE "none"

\* the next step of goroutine t writes a map
Writes(t) == pc[t].at \in {"zero_write", "one_write"}

\* goroutines t and u are about to touch the same map, one of them writing
\* it, with nothing that orders the two accesses: a data race
Races(t, u) ==
    /\ t # u
    /\ Touches(t) # "none"
    /\ Touches(t) = Touches(u)
    /\ pc[t].part = pc[u].part
    /\ Writes(t) \/ Writes(u)

\* the runtime finds two goroutines in one map, one of them writing, and
\* stops the process (fatal error: concurrent map writes / concurrent map
\* read and map write): no call returns any more
Fatal ==
    /\ \E t, u \in Threads : Races(t, u)
    /\ pc' = [t \in Threads |-> [pc[t] EXCEPT !.at = "fatal"]]
    /\ UNCHANGED <<tables, seqvars, zero_mutex, one_mutex, calls, started>>

ConcInit ==
    /\ bits \in 1 .. MaxConcBits
    /\ tolerance \in 0 .. MaxConcTol
    /\ EmptyTables("rwmap")
    /\ NoCalls
    /\ lru_size = 0
    /\ IdleThreads

ConcNext ==
    \/ \E t \in Threads : \E key \in ThreadObjs(t) : StartInsert(t, key)
    \/ \E t \in Threads : \E key \in ThreadObjs(t) : StartRemove(t, key)
    \/ \E t \in Threads : \E key \in ThreadObjs(t) : StartFind(t, key)
    \/ \E t \in Threads : Run(t)
    \/ Fatal

\* goroutines calling one Partitioning concurrently
ConcSpec == ConcInit /\ [][ConcNext]_vars

\* the same under a scheduler that lets every goroutine run
FairSpec == ConcSpec /\ \A t \in Threads : WF_vars(Run(t))

\* ------------------------------------------------- NewPartitioning on its own

\* NewPartitioning has no error result: it returns a Partitioning for every
\* bits and tolerance
ConfigErr(b, t) == FALSE

\* a caller runs NewPartitioning(bits, tolerance)
Build ==
    /\ ~built.done
    /\ built' = [done |-> TRUE, err |-> ConfigErr(bits, tolerance),
                 partitions |-> NewPartitioning(bits, tolerance)]
    /\ UNCHANGED <<tables, last, lastIns, toggles, removed, storevars, batch, webvars, keyvars, concvars>>

GeomInit ==
    /\ bits \in 0 .. MaxGeomBits
    /\ tolerance \in 0 .. MaxGeomTol
    /\ EmptyTables("rwmap")
    /\ NoCalls
    /\ lru_size = 0
    /\ IdleThreads

GeomNext == Build

\* callers of NewPartitioning, one per key width and tolerance
GeomSpec == GeomInit /\ [][GeomNext]_vars

\* ---------------------------------------------------- a bucket store on its own

StoreKinds == {"mapkv", "lrukv", "setkv"}
BucketKeys == 0 .. MaxBucket
StoreObjs == [bits : 0 .. MaxStoreKeyVal, id : 1 .. MaxObj]

\* the store as the operations take it
Cache == [kv |-> kvstore, recent |-> recent, size |-> lru_size]

\* a caller runs Add(k, v) of the store
StoreAdd(k, v) ==
    /\ \E r \in {StoreKVAdd(store, Cache, k, v)} :
           /\ kvstore' = r.kv
           /\ recent' = r.recent
           /\ kvcall' = [op |-> "add", k |-> k, v |-> v, ret |-> r.ok,
                         before |-> kvstore]
    /\ UNCHANGED <<tables, last, lastIns, toggles, removed, built, lru_size, batch, webvars, keyvars,
                   concvars>>

\* a caller runs Remove(k, v) of the store
StoreRemove(k, v) ==
    /\ \E r \in {StoreKVRemove(store, Cache, k, v)} :
           /\ kvstore' = r.kv
           /\ recent' = r.recent
           /\ kvcall' = [op |-> "remove", k |-> k, v |-> v, ret |-> r.ok,
                         before |-> kvstore]
    /\ UNCHANGED <<tables, last, lastIns, toggles, removed, built, lru_size, batch, webvars, keyvars,
                   concvars>>

\* NewMapKV / NewLruKV(lru_size): an empty store of one of the three kinds
StoreInit ==
    /\ bits = 1
    /\ tolerance = 0
    /\ \E st \in StoreKinds : EmptyTables(st)
    /\ NoCalls
    /\ lru_size \in 1 .. MaxLru
    /\ IdleThreads

StoreNext ==
    \/ \E k \in BucketKeys : \E v \in StoreObjs : StoreAdd(k, v)
    \/ \E k \in BucketKeys : \E v \in StoreObjs : StoreRemove(k, v)

\* sequential callers of one bucket store
StoreSpec == StoreInit /\ [][StoreNext]_vars

\* ------------------------------------- goroutines sharing one LRU bucket store

\* the stores sequential Add calls leave: empty, or after one or two Add calls
\* on a cache of capacity n
LruStores(n) ==
    LET empty == [kv |-> EmptyKV, recent |-> <<>>, size |-> n]
        step(cs) == {[kv |-> r.kv, recent |-> r.recent, size |-> n] :
                        r \in {LruKVAdd(c, k, v) :
                                  c \in cs, k \in BucketKeys, v \in StoreObjs}}
    IN  {empty} \cup step({empty}) \cup step(step({empty}))

\* NewLruKV(lru_size) and the Add calls made before the goroutines start
LruInit ==
    /\ bits = 1
    /\ tolerance = 0
    /\ EmptyTables("lrukv")
    /\ last = [op |-> "none", key |-> NoKey, ret |-> FALSE, res |-> NoResult,
               chg |-> FALSE, err |-> FALSE, pre |-> FALSE, emp |-> TRUE, prior |-> "none"]
    /\ lastIns = {}
    /\ toggles = TRUE
    /\ removed = {}
    /\ built = [done |-> FALSE, err |-> FALSE, partitions |-> <<>>]
    /\ batch = [called |-> FALSE, request |-> <<>>, status |-> 0, response |-> <<>>,
                pre |-> {}]
    /\ NoRequests
    /\ NoKeys
    /\ lru_size \in 1 .. MaxLru
    /\ \E c \in LruStores(lru_size) :
           /\ kvstore = c.kv
           /\ recent = c.recent
           /\ kvcall = [op |-> "none", k |-> 0, v |-> NoKey, ret |-> FALSE,
                        before |-> c.kv]
    /\ IdleThreads

\* goroutine t calls LruKV.Add(k, v) or LruKV.Remove(k, v)
LruStart(t, op, k, v) ==
    /\ pc[t].at = "ret"
    /\ calls < MaxLruCalls
    /\ calls' = calls + 1
    /\ pc' = [pc EXCEPT ![t] = [Returned(op, v, FALSE, NoResult)
                                   EXCEPT !.at = "get", !.part = k]]
    /\ UNCHANGED <<tables, seqvars, zero_mutex, one_mutex, started>>

\* found_values, ok := l.kv.Get(key) and the search in found_values: the call
\* returns false, or goes on to its write with the slice it read
LruGet(t) ==
    /\ pc[t].at = "get"
    /\ \E sn \in {Snap(kvstore, pc[t].part)} :
       \E hit \in {sn.ok /\ FirstIndex(sn.vals, pc[t].key) # 0} :
       \E go \in {IF pc[t].op = "add" THEN ~hit
                  ELSE sn.ok /\ (Len(sn.vals) = 1 \/ hit)} :
           pc' = [pc EXCEPT ![t] =
                     IF go THEN [@ EXCEPT !.at = "put", !.snap = sn]
                     ELSE [Returned(@.op, @.key, FALSE, NoResult) EXCEPT !.part = pc[t].part]]
    /\ recent' = LruCacheGet(Cache, pc[t].part).recent
    /\ UNCHANGED <<tables, last, lastIns, toggles, removed, built, kvstore, lru_size,
                   kvcall, batch, webvars, keyvars, zero_mutex, one_mutex, calls, started>>

\* the write of LruKV.Add (l.kv.Add of the slice read, with the value appended)
\* and of LruKV.Remove (l.kv.Remove of a bucket read with one member, l.kv.Add
\* of the slice read without the value otherwise); the call returns true
LruPut(t) ==
    /\ pc[t].at = "put"
    /\ \E c \in {IF pc[t].op = "add"
                 THEN LruCacheAdd(Cache, pc[t].part, Append(pc[t].snap.vals, pc[t].key))
                 ELSE IF Len(pc[t].snap.vals) = 1
                      THEN LruCacheRemove(Cache, pc[t].part)
                      ELSE LruCacheAdd(Cache, pc[t].part,
                               DeleteAt(pc[t].snap.vals,
                                        FirstIndex(pc[t].snap.vals, pc[t].key)))} :
           /\ kvstore' = c.kv
           /\ recent' = c.recent
    /\ pc' = [pc EXCEPT ![t] =
                 [Returned(@.op, @.key, TRUE, NoResult) EXCEPT !.part = pc[t].part]]
    /\ UNCHANGED <<tables, last, lastIns, toggles, removed, built, lru_size,
                   kvcall, batch, webvars, keyvars, zero_mutex, one_mutex, calls, started>>

LruNext ==
    \/ \E t \in Threads : \E k \in BucketKeys : \E v \in StoreObjs :
           LruStart(t, "add", k, v)
    \/ \E t \in Threads : \E k \in BucketKeys : \E v \in StoreObjs :
           LruStart(t, "remove", k, v)
    \/ \E t \in Threads : LruGet(t)
    \/ \E t \in Threads : LruPut(t)

\* goroutines calling one LruKV concurrently
LruSpec == LruInit /\ [][LruNext]_vars

\* ----------------------------------------------------- index over LRU stores

\* the lru.Cache a call left, as the next call takes it
AsCache(r, n) == [kv |-> r.kv, recent |-> r.recent, size |-> n]

RECURSIVE LruInsertPermuted(_, _, _, _, _)
\* the loop of Partition.Insert over the first n permutations, on the cache c
LruInsertPermuted(c, perms, n, size, value) ==
    IF n = 0 THEN c
    ELSE AsCache(LruKVAdd(LruInsertPermuted(c, perms, n - 1, size, value),
                          KeyInt(perms[n], size), value), c.size)

RECURSIVE LruRemovePermuted(_, _, _, _, _)
\* the loop of Partition.Remove over the first n permutations, on the cache c
LruRemovePermuted(c, perms, n, size, value) ==
    IF n = 0 THEN c
    ELSE AsCache(LruKVRemove(LruRemovePermuted(c, perms, n - 1, size, value),
                             KeyInt(perms[n], size), value), c.size)

RECURSIVE LruGetPermuted(_, _, _, _)
\* the Get calls of the first loop of Partition.Find: each hit becomes the most recent
LruGetPermuted(c, perms, n, size) ==
    IF n = 0 THEN c
    ELSE LruCacheGet(LruGetPermuted(c, perms, n - 1, size), KeyInt(perms[n], size))

\* Partition.Insert(key) of the LRU variant on the caches zc, oc: [zero, one, ok]
LruPartitionInsert(p, zc, oc, key) ==
    LET tk == SubWord(p, key.bits)
        z  == LruKVAdd(zc, KeyInt(tk, p.mask), key)
    IN  [zero |-> AsCache(z, zc.size),
         one  |-> IF z.ok
                  THEN LruInsertPermuted(oc, KeyPermutations(tk, p.mask), p.mask,
                                         p.mask, key)
                  ELSE oc,
         ok   |-> z.ok]

\* Partition.Remove(key) of the LRU variant on the caches zc, oc: [zero, one, ok]
LruPartitionRemove(p, zc, oc, key) ==
    LET tk == SubWord(p, key.bits)
        z  == LruKVRemove(zc, KeyInt(tk, p.mask), key)
    IN  [zero |-> AsCache(z, zc.size),
         one  |-> IF z.ok
                  THEN LruRemovePermuted(oc, KeyPermutations(tk, p.mask), p.mask,
                                         p.mask, key)
                  ELSE oc,
         ok   |-> z.ok]

\* the caches of partition i of the index
ZeroCache(i) == [kv |-> zero_kv[i], recent |-> recent.zero[i], size |-> lru_size]
OneCache(i) == [kv |-> one_kv[i], recent |-> recent.one[i], size |-> lru_size]

\* the keys the callers of the index over LRU stores use: in either half of
\* the key the four sub-words 00, 01, 10 and 11
IdxObjs == [bits : {0, 5, 10, 15}, id : {1}]

\* NewLruPartitioning(bits, tolerance, lru_size)
IdxInit ==
    /\ bits = MaxIdxBits
    /\ tolerance = MaxIdxTol
    /\ EmptyTables("lrukv")
    /\ last = [op |-> "none", key |-> NoKey, ret |-> FALSE, res |-> NoResult,
               chg |-> FALSE, err |-> FALSE, pre |-> FALSE, emp |-> TRUE, prior |-> "none"]
    /\ lastIns = {}
    /\ toggles = TRUE
    /\ removed = {}
    /\ built = [done |-> FALSE, err |-> FALSE, partitions |-> <<>>]
    /\ batch = [called |-> FALSE, request |-> <<>>, status |-> 0, response |-> <<>>,
                pre |-> {}]
    /\ NoRequests
    /\ NoKeys
    /\ kvstore = EmptyKV
    /\ kvcall = [op |-> "none", k |-> 0, v |-> NoKey, ret |-> FALSE, before |-> EmptyKV]
    /\ lru_size \in 1 .. MaxIdxLru
    /\ recent = [zero |-> [i \in 1 .. PartitionCount(bits, tolerance) |-> <<>>],
                 one  |-> [i \in 1 .. PartitionCount(bits, tolerance) |-> <<>>]]
    /\ IdleThreads

\* a caller runs Partitioning.Insert(key) to completion on the LRU stores
IdxInsert(key) ==
    /\ calls < MaxIdxCalls
    /\ calls' = calls + 1
    /\ \E r \in {[i \in DOMAIN partitions |->
                    LruPartitionInsert(partitions[i], ZeroCache(i), OneCache(i), key)]} :
           /\ zero_kv' = [i \in DOMAIN r |-> r[i].zero.kv]
           /\ one_kv' = [i \in DOMAIN r |-> r[i].one.kv]
           /\ recent' = [zero |-> [i \in DOMAIN r |-> r[i].zero.recent],
                         one  |-> [i \in DOMAIN r |-> r[i].one.recent]]
           /\ last' = Called("insert", key, \E i \in DOMAIN r : r[i].ok, NoResult,
                             \E i \in DOMAIN r :
                                 r[i].zero.kv # zero_kv[i] \/ r[i].one.kv # one_kv[i])
    /\ lastIns' = lastIns \cup {key.bits}
    /\ toggles' = (toggles /\ key.bits \notin lastIns)
    /\ UNCHANGED <<bits, tolerance, store, removed, built, kvstore, lru_size, kvcall,
                   batch, webvars, keyvars, pc, zero_mutex, one_mutex, started>>

\* a caller runs Partitioning.Remove(key) to completion on the LRU stores
IdxRemove(key) ==
    /\ calls < MaxIdxCalls
    /\ calls' = calls + 1
    /\ \E r \in {[i \in DOMAIN partitions |->
                    LruPartitionRemove(partitions[i], ZeroCache(i), OneCache(i), key)]} :
           /\ zero_kv' = [i \in DOMAIN r |-> r[i].zero.kv]
           /\ one_kv' = [i \in DOMAIN r |-> r[i].one.kv]
           /\ recent' = [zero |-> [i \in DOMAIN r |-> r[i].zero.recent],
                         one  |-> [i \in DOMAIN r |-> r[i].one.recent]]
           /\ last' = Called("remove", key, \E i \in DOMAIN r : r[i].ok, NoResult,
                             \E i \in DOMAIN r :
                                 r[i].zero.kv # zero_kv[i] \/ r[i].one.kv # one_kv[i])
    /\ lastIns' = lastIns \ {key.bits}
    /\ toggles' = (toggles /\ key.bits \in lastIns)
    /\ removed' = removed \cup {key.bits}
    /\ UNCHANGED <<bits, tolerance, store, built, kvstore, lru_size, kvcall,
                   batch, webvars, keyvars, pc, zero_mutex, one_mutex, started>>

\* a caller runs Partitioning.Find(key) to completion on the LRU stores: the
\* Get calls of Partition.Find make the buckets they hit the most recent
IdxFind(key) ==
    /\ calls < MaxIdxCalls
    /\ calls' = calls + 1
    /\ recent' =
           [zero |-> [i \in DOMAIN partitions |->
                         LruCacheGet(ZeroCache(i),
                             KeyInt(SubWord(partitions[i], key.bits),
                                    partitions[i].mask)).recent],
            one  |-> [i \in DOMAIN partitions |->
                         LruGetPermuted(OneCache(i),
                             KeyPermutations(SubWord(partitions[i], key.bits),
                                             partitions[i].mask),
                             partitions[i].mask, partitions[i].mask).recent]]
    /\ last' = Called("find", key, TRUE, PartitioningFind(key.bits), FALSE)
    /\ UNCHANGED <<tables, lastIns, toggles, removed, built, kvstore, lru_size, kvcall,
                   batch, webvars, keyvars, pc, zero_mutex, one_mutex, started>>

IdxNext ==
    \/ \E key \in IdxObjs : IdxInsert(key)
    \/ \E key \in IdxObjs : IdxRemove(key)
    \/ \E key \in IdxObjs : IdxFind(key)

\* sequential callers of an index over bounded LRU stores
IdxSpec == IdxInit /\ [][IdxNext]_vars

\* ------------------------------------------------ the registry of databases

\* a request for the database key comes in: goroutine t runs addHandler,
\* queryHandler or deleteHandler with one scalar; seen holds the scalars
\* whose add has completed and that no delete request has named so far
ReqStart(t, op, x) ==
    /\ requests.run[t].at = "ret"
    /\ calls < MaxRequests
    /\ calls' = calls + 1
    /\ requests' = [requests EXCEPT
           !.run[t] = [op |-> op, scalar |-> x, at |-> "lookup", db |-> 0,
                       seen |-> requests.added \ requests.deleted, found |-> FALSE],
           !.deleted = IF op = "delete" THEN @ \cup {x} ELSE @]
    /\ UNCHANGED <<tables, last, lastIns, toggles, removed, built, storevars, batch,
                   keyvars, databases, pc, zero_mutex, one_mutex, started>>

\* databases_mutex.RLock(); add_db, ok := databases[add_db_key]; RUnlock()
ReqLookup(t) ==
    /\ requests.run[t].at = "lookup"
    /\ requests' = [requests EXCEPT
           !.run[t].db = databases.reg,
           !.run[t].at = IF databases.reg # 0 THEN "run" ELSE "init"]
    /\ UNCHANGED <<tables, last, lastIns, toggles, removed, built, storevars, batch,
                   keyvars, databases, pc, zero_mutex, one_mutex, calls, started>>

\* if !ok: add_db = db.NewPartitioning(bits, tolerance); Lock();
\* databases[add_db_key] = add_db; Unlock()
ReqInit(t) ==
    /\ requests.run[t].at = "init"
    /\ databases' = [reg |-> databases.made + 1, made |-> databases.made + 1,
                     keys |-> Append(databases.keys, {})]
    /\ requests' = [requests EXCEPT !.run[t].db = databases.made + 1,
                                    !.run[t].at = "run"]
    /\ UNCHANGED <<tables, last, lastIns, toggles, removed, built, storevars, batch,
                   keyvars, pc, zero_mutex, one_mutex, calls, started>>

\* the loop over the scalars of the request on the Partitioning the handler
\* holds (Insert, Find or Remove), and the response
ReqRun(t) ==
    /\ requests.run[t].at = "run"
    /\ \E r \in {requests.run[t]} :
           /\ databases' = [databases EXCEPT !.keys[r.db] =
                               IF r.op = "add" THEN @ \cup {r.scalar}
                               ELSE IF r.op = "delete" THEN @ \ {r.scalar}
                               ELSE @]
           /\ requests' = [requests EXCEPT
                  !.run[t].at = "ret",
                  !.run[t].found = (r.op = "query" /\ r.scalar \in databases.keys[r.db]),
                  !.added = IF r.op = "add" THEN @ \cup {r.scalar} ELSE @]
    /\ UNCHANGED <<tables, last, lastIns, toggles, removed, built, storevars, batch,
                   keyvars, pc, zero_mutex, one_mutex, calls, started>>

\* Server(): an empty registry
RegInit ==
    /\ bits = 1
    /\ tolerance = 0
    /\ EmptyTables("rwmap")
    /\ NoCalls
    /\ lru_size = 0
    /\ IdleThreads

RegNext ==
    \/ \E t \in Threads : \E op \in {"add", "query", "delete"} :
       \E x \in 0 .. MaxReqVal : ReqStart(t, op, x)
    \/ \E t \in Threads : ReqLookup(t)
    \/ \E t \in Threads : ReqInit(t)
    \/ \E t \in Threads : ReqRun(t)

\* concurrent add, query and delete requests for one database key
RegSpec == RegInit /\ [][RegNext]_vars

\* ----------------------------------------------------------- keys on their own

\* the values keys are made of: one byte and two bytes long
KeyVals == {0, 1, 5, 6, 261}

\* NewKey(big.NewInt(v))
KeyNew(v) ==
    /\ calls < MaxKeyCalls
    /\ calls' = calls + 1
    /\ heap' = Append(heap, v)
    /\ keycall' = [op |-> "NewKey", k |-> Len(heap) + 1, shift |-> 0, mask |-> 0,
                   count |-> 0, ret |-> <<Len(heap) + 1>>, before |-> heap]
    /\ UNCHANGED <<tables, last, lastIns, toggles, removed, built, storevars, batch,
                   webvars, pc, zero_mutex, one_mutex, started>>

\* k.Transform(shift, mask) for a key k made so far
KeyTransform(k, shift, mask) ==
    /\ calls < MaxKeyCalls
    /\ calls' = calls + 1
    /\ \E r \in {TransformKey(heap, k, shift, mask)} :
           /\ heap' = r.heap
           /\ keycall' = [op |-> "Transform", k |-> k, shift |-> shift, mask |-> mask,
                          count |-> 0, ret |-> r.ret, before |-> heap]
    /\ UNCHANGED <<tables, last, lastIns, toggles, removed, built, storevars, batch,
                   webvars, pc, zero_mutex, one_mutex, started>>

\* k.Permutations(count) for a key k made so far
KeyPermute(k, count) ==
    /\ calls < MaxKeyCalls
    /\ calls' = calls + 1
    /\ \E r \in {PermutationsKey(heap, k, count)} :
           /\ heap' = r.heap
           /\ keycall' = [op |-> "Permutations", k |-> k, shift |-> 0, mask |-> 0,
                          count |-> count, ret |-> r.ret, before |-> heap]
    /\ UNCHANGED <<tables, last, lastIns, toggles, removed, built, storevars, batch,
                   webvars, pc, zero_mutex, one_mutex, started>>

\* one key of any value, no call on it yet
KeyInit ==
    /\ bits = 1
    /\ tolerance = 0
    /\ EmptyTables("rwmap")
    /\ last = [op |-> "none", key |-> NoKey, ret |-> FALSE, res |-> NoResult,
               chg |-> FALSE, err |-> FALSE, pre |-> FALSE, emp |-> TRUE, prior |-> "none"]
    /\ lastIns = {}
    /\ toggles = TRUE
    /\ removed = {}
    /\ built = [done |-> FALSE, err |-> FALSE, partitions |-> <<>>]
    /\ kvstore = EmptyKV
    /\ recent = <<>>
    /\ lru_size = 0
    /\ kvcall = [op |-> "none", k |-> 0, v |-> NoKey, ret |-> FALSE, before |-> EmptyKV]
    /\ batch = [called |-> FALSE, request |-> <<>>, status |-> 0, response |-> <<>>,
                pre |-> {}]
    /\ NoRequests
    /\ \E v \in KeyVals : heap = <<v>>
    /\ keycall = NoKeyCall
    /\ IdleThreads

KeyNext ==
    \/ \E v \in KeyVals : KeyNew(v)
    \/ \E k \in 1 .. Len(heap) : \E shift \in 0 .. MaxShift :
       \E mask \in 0 .. (2 ^ MaxMaskBits) - 1 : KeyTransform(k, shift, mask)
    \/ \E k \in 1 .. Len(heap) : \E count \in 0 .. MaxPermCount : KeyPermute(k, count)

\* calls of NewKey, Transform and Permutations on a heap of keys
KeySpec == KeyInit /\ [][KeyNext]_vars

\* ------------------------------------------------------------- the add handler

\* safe_scalar := big.NewInt(0); safe_scalar.SetBytes(scalar.Bytes()): Bytes
\* gives the magnitude, so the copy is the absolute value
SafeScalar(v) == IF v < 0 THEN 0 - v ELSE v

\* the loop body that answers for a key without inserting it
AddStepDropped(st, ps, acc, scalar, n) ==
    LET key == [bits |-> SafeScalar(scalar), id |-> n]
        r == PartitioningInsertOn(st, ps, acc.zero, acc.one, key)
    IN  [acc EXCEPT !.response = Append(acc.response,
                        [scalar |-> key.bits, added |-> \E i \in DOMAIN r : r[i].ok])]

\* one iteration of the loop of handleAdd on acc = [zero, one, status, response]:
\* element n of the request is copied into a new key object and inserted; an
\* error ends the request with status 500
AddStep(st, ps, acc, scalar, n) ==
    LET key == [bits |-> SafeScalar(scalar), id |-> n]
        r == PartitioningInsertOn(st, ps, acc.zero, acc.one, key)
    IN  IF acc.status = 500 THEN acc
        ELSE IF PartitioningErr(key)
        THEN [acc EXCEPT !.zero = [i \in DOMAIN r |-> r[i].zero],
                         !.one = [i \in DOMAIN r |-> r[i].one],
                         !.status = 500]
        ELSE [acc EXCEPT !.zero = [i \in DOMAIN r |-> r[i].zero],
                         !.one = [i \in DOMAIN r |-> r[i].one],
                         !.response = Append(acc.response,
                             [scalar |-> key.bits, added |-> \E i \in DOMAIN r : r[i].ok])]

RECURSIVE AddLoop(_, _, _, _, _, _)
\* the loop of handleAdd over the first n elements of the request
AddLoop(st, ps, zkvs, okvs, req, n) ==
    IF n = 0
    THEN [zero |-> zkvs, one |-> okvs, status |-> 200, response |-> <<>>]
    ELSE AddStep(st, ps, AddLoop(st, ps, zkvs, okvs, req, n - 1), req[n], n)

Scalars == (0 - 1) .. MaxBatchVal

\* the add requests: every array of at most MaxBatch scalars
AddRequests == UNION {[1 .. n -> Scalars] : n \in 0 .. MaxBatch}

\* Server.handleAdd(request) from the first key to the response
HandleAdd(req) ==
    /\ \E r \in {AddLoop(store, partitions, zero_kv, one_kv, req, Len(req))} :
           /\ zero_kv' = r.zero
           /\ one_kv' = r.one
           /\ batch' = [called |-> TRUE, request |-> req, status |-> r.status,
                        response |-> r.response, pre |-> IndexedBits]
    /\ UNCHANGED <<bits, tolerance, store, last, lastIns, toggles, removed, built,
                   storevars, webvars, keyvars, concvars>>

\* db.NewPartitioning(bits, tolerance) behind a new server
BatchInit ==
    /\ bits \in 1 .. MaxBatchBits
    /\ tolerance \in 0 .. MaxBatchTol
    /\ \E st \in {"rwmap", "mapkv"} : EmptyTables(st)
    /\ NoCalls
    /\ lru_size = 0
    /\ IdleThreads

BatchNext == \E req \in AddRequests : HandleAdd(req)

\* a server answering one add request after the other
BatchSpec == BatchInit /\ [][BatchNext]_vars

\* ------------------------------------------------- callers with distant keys

\* the keys these callers insert and remove: the key of all zeros and the key
\* of all ones
WideObjs == [bits : {0, (2 ^ MaxWideBits) - 1}, id : {1}]

\* the keys these callers query: keys whose sub-words are, partition by
\* partition, equal to, one bit from or two bits from those of the keys above
WideQueries == [bits : {0, 6, 249, 479, (2 ^ MaxWideBits) - 1}, id : {1}]

\* NewPartitioning(MaxWideBits, tolerance) with an even and an odd tolerance
\* under which a key without an exact match can be within the tolerance
WideInit ==
    /\ bits = MaxWideBits
    /\ tolerance \in {MaxWideTol - 3, MaxWideTol}
    /\ EmptyTables("rwmap")
    /\ NoCalls
    /\ lru_size = 0
    /\ IdleThreads

WideNext ==
    \/ \E key \in WideObjs : Insert(key)
    \/ \E key \in WideObjs : Remove(key)
    \/ \E key \in WideQueries : Find(key)

\* sequential callers of an index of four partitions (tolerance 6) or six
\* (tolerance 9) over the RWMutex-guarded maps
WideSpec == WideInit /\ [][WideNext]_vars

\* ------------------------------------------------------------------ claims

\* the number of bit positions in which a and b differ
Distance(a, b) ==
    Cardinality({i \in 0 .. MaxBits + MaxKeyVal : Bit(a, i) # Bit(b, i)})

\* the result res holds a key equal to x
HasKey(res, x) == \E k \in DOMAIN res : k.bits = x

\* the result res holds the pair (a key equal to x, d)
HasPair(res, x, d) == \E k \in DOMAIN res : k.bits = x /\ res[k] = d

\* every key the sequential callers have passed to Insert or Remove is of the
\* index's width
OnlyWidthKeys == (lastIns \cup removed) \subseteq WidthKeys(bits)

\* goroutine t has returned from a Find call
FindReturned(t) == pc[t].op = "find" /\ pc[t].at = "ret"

\* C1 (recall): on an index that saw only Insert calls of width-B keys, the
\* result of Find(q) for a width-B query q holds (x, popcount(q XOR x)) for
\* every inserted x within the tolerance of q.
C1_Recall ==
    (/\ last.op = "find"
     /\ removed = {}
     /\ OnlyWidthKeys
     /\ last.key.bits \in WidthKeys(bits))
    => \A x \in lastIns :
           Distance(last.key.bits, x) <= tolerance
           => HasPair(last.res, x, Distance(last.key.bits, x))

\* C2 (soundness): whatever Insert and Remove calls ran or are running, every
\* pair (x, d) of a returned Find(q) result has d = popcount(q XOR x) and
\* d <= tolerance.
C2_Soundness ==
    \A t \in Threads :
        FindReturned(t)
        => \A k \in DOMAIN pc[t].res :
               /\ pc[t].res[k] = Distance(pc[t].key.bits, k.bits)
               /\ pc[t].res[k] <= tolerance

\* a Find returned a key at distance 1 while another goroutine is inside a call
C2_Witness ==
    \E t \in Threads :
        /\ FindReturned(t)
        /\ \E k \in DOMAIN pc[t].res : pc[t].res[k] = 1
        /\ \E u \in Threads \ {t} : pc[u].at # "ret"

\* C3 (round trip): a Find(x) that follows an Insert(x) of a width-B key x
\* holds (x, 0), on any index state and for any tolerance.
C3_RoundTrip ==
    (/\ last.op = "find"
     /\ last.prior # "none"
     /\ last.key.bits \in WidthKeys(bits))
    => HasPair(last.res, last.key.bits, 0)

\* Find(x) right after Insert(x) under a tolerance above the key width, on an
\* index holding a second key, returned another object than the one it was given
C3_Witness ==
    /\ last.op = "find"
    /\ last.prior # "none"
    /\ last.key.bits \in WidthKeys(bits)
    /\ tolerance > bits
    /\ Cardinality(IndexedBits) = 2
    /\ \E k \in DOMAIN last.res : k.bits = last.key.bits /\ k.id # last.key.id

\* C4 (membership): while the sequential calls are toggles (Insert(x) when x is
\* absent, Remove(x) when x is present), Find(x) holds x exactly when the
\* last operation on x was Insert, for every key x of the set.
C4_Membership ==
    toggles
    => \A x \in 0 .. MaxKeyVal :
           HasKey(PartitioningFind(x), x) <=> x \in lastIns

\* toggles only, two keys present, one of them inserted again after its removal
C4_Witness ==
    /\ toggles
    /\ Cardinality(lastIns) = 2
    /\ removed \cap lastIns # {}
    /\ removed \ lastIns # {}

\* C5 (idempotence): of a run of successive Insert calls of equal keys on an
\* index that did not hold the key, the first returns true and every later one
\* returns false and changes no bucket.
C5_Idempotent ==
    last.op = "insert"
    => /\ (last.prior = "none" /\ ~last.pre) => last.ret
       /\ last.prior = "new" => (~last.ret /\ ~last.chg)

\* a later Insert of the run returned false for another object than the stored one
C5_Witness ==
    /\ last.op = "insert"
    /\ last.prior = "new"
    /\ ~last.ret
    /\ \E k \in Stored(zero_kv) : k.bits = last.key.bits /\ k.id # last.key.id

\* C6 (remove after insert): a Remove(x) that follows Insert(x) on an index
\* that did not hold x returns true, leaves x in no bucket of any table, and
\* no Find(q) holds x afterwards.
C6_RemoveAfterInsert ==
    (last.op = "remove" /\ last.prior = "new")
    => /\ last.ret
       /\ last.key.bits \notin IndexedBits
       /\ \A q \in QueryObjs(bits) :
              ~HasKey(PartitioningFind(q.bits), last.key.bits)

\* Remove(x) right after Insert(x) returned true and another key is still indexed
C6_Witness ==
    /\ last.op = "remove"
    /\ last.prior = "new"
    /\ last.ret
    /\ IndexedBits # {}
    /\ tolerance >= 1

\* C7 (remove on empty): Remove(x) on an index without any bucket returns
\* false and leaves every zero-table and one-table without a bucket.
C7_RemoveOnEmpty ==
    (last.op = "remove" /\ last.emp) => (~last.ret /\ NoBuckets)

\* Remove returned false on an empty index of several partitions
C7_Witness ==
    /\ last.op = "remove"
    /\ last.emp
    /\ ~last.ret
    /\ Len(partitions) >= 2

\* C8 (no phantom keys): every key of a returned Find result is a key object
\* some Insert call was started with before that Find returned.
C8_NoPhantom ==
    \A t \in Threads :
        FindReturned(t) => \A k \in DOMAIN pc[t].res : k \in started

\* a Find returned a key whose Insert call has not returned yet
C8_Witness ==
    \E t \in Threads :
        /\ FindReturned(t)
        /\ \E u \in Threads \ {t} :
               /\ pc[u].op = "insert"
               /\ pc[u].at # "ret"
               /\ pc[u].key \in DOMAIN pc[t].res

\* C9 (stable keys stay visible): a Find(x) that starts after Insert(x)
\* returned, with no Remove(x) ever called, holds (x, 0) whatever Insert and
\* Remove calls of other width-B keys were made.
C9_StableVisible ==
    (/\ last.op = "find"
     /\ last.key.bits \in lastIns \ removed
     /\ OnlyWidthKeys)
    => HasPair(last.res, last.key.bits, 0)

\* C10 (completion): every call a goroutine has started returns, and a
\* goroutine that has returned holds no lock.
C10_Completion ==
    /\ \A t \in Threads : (pc[t].at # "ret") ~> (pc[t].at = "ret")
    /\ [](\A t \in Threads : pc[t].at = "ret" => Holds(t) = {})

\* the widths of the built partitions, in list order
Widths == [i \in DOMAIN built.partitions |-> built.partitions[i].mask]

\* the shifts of the built partitions, in list order
Shifts == [i \in DOMAIN built.partitions |-> built.partitions[i].shift]

RECURSIVE SumTo(_, _)
\* the sum of the first n elements of the sequence w
SumTo(w, n) == IF n = 0 THEN 0 ELSE w[n] + SumTo(w, n - 1)

\* the smaller and the larger of two numbers
MinOf(a, b) == IF a < b THEN a ELSE b
MaxOf(a, b) == IF a > b THEN a ELSE b

\* C14 (partition count of the specification): NewPartitioning(B, k) builds
\* max(1, min(B, k)) partitions; (32, 4) gives four partitions of width 8
\* and (4, 8) gives four partitions of width 1.
C14_CountPerSpec ==
    built.done
    => /\ Len(built.partitions) = MaxOf(1, MinOf(bits, tolerance))
       /\ (bits = 32 /\ tolerance = 4) => Widths = <<8, 8, 8, 8>>
       /\ (bits = 4 /\ tolerance = 8) => Widths = <<1, 1, 1, 1>>

C16_Geometry ==
    (built.done /\ bits >= 1)
    => /\ SumTo(Widths, Len(Widths)) = bits
       /\ Shifts[1] = 0
       /\ \A i \in 1 .. Len(Shifts) - 1 : Shifts[i + 1] = Shifts[i] + Widths[i]
       /\ \A i \in DOMAIN Shifts : Shifts[i] + Widths[i] <= bits
       /\ \A i, j \in DOMAIN Widths :
              /\ Widths[i] - Widths[j] <= 1
              /\ i < j => Widths[i] >= Widths[j]

\* an uneven split was built: partitions of two widths
C16_Witness ==
    /\ built.done
    /\ bits >= 1
    /\ \E i, j \in DOMAIN Widths : Widths[i] = Widths[j] + 1

\* C18 (configuration error): NewPartitioning with a B that is not a positive
\* multiple of 8 reports an error and returns no usable index.
C18_ConfigError ==
    (built.done /\ (bits = 0 \/ bits % 8 # 0))
    => (built.err /\ built.partitions = <<>>)

\* C11 (partition tags): on an index built by sequential inserts of width-B
\* keys, Partition.Find(q) of every partition returns an inserted key x with
\* tag 0 exactly when the sub-words of x and q are equal, with tag 1 exactly
\* when they differ in exactly one bit, and returns nothing else.
C11_PartitionTags ==
    (removed = {} /\ OnlyWidthKeys)
    => \A i \in DOMAIN partitions : \A q \in WidthKeys(bits) :
           LET p == partitions[i]
               res == PartitionFind(p, zero_kv[i], one_kv[i], q)
               sq == SubWord(p, q)
           IN  /\ \A x \in lastIns :
                      /\ HasPair(res, x, 0) <=> SubWord(p, x) = sq
                      /\ HasPair(res, x, 1) <=> Distance(SubWord(p, x), sq) = 1
               /\ \A k \in DOMAIN res : k.bits \in lastIns

\* C17 (key width mismatch): an Insert, Remove or Find call with a key that
\* has bits set at positions >= B returns an error and leaves the index
\* unchanged.
C17_KeyWidthMismatch ==
    (last.op # "none" /\ last.key.bits \notin WidthKeys(bits))
    => (last.err /\ ~last.chg)

\* a Find that skips the admission rule: every key emitted by some partition
\* is verified by its full Hamming distance to q
VerifiedFind(q) ==
    LET cands == Gather(partitions, zero_kv, one_kv, q, Len(partitions))
    IN  [k \in {c \in DOMAIN cands : hamming(c.bits, q) <= tolerance} |->
            hamming(k.bits, q)]

\* C20 (admission rule is neutral): on every index reached by sequential
\* inserts and removes of width-B keys, Find(q) returns for every width-B
\* query q the same map as a Find that skips the admission rule and keeps
\* every emitted candidate whose Hamming distance to q is within the tolerance.
C20_RuleNeutral ==
    OnlyWidthKeys
    => \A q \in WidthKeys(bits) : PartitioningFind(q) = VerifiedFind(q)

\* the keys of bucket k in the store content b, none when there is no bucket
Members(b, k) ==
    IF k \in DOMAIN b
    THEN IF store = "setkv" THEN b[k] ELSE Range(b[k])
    ELSE {}

\* the set mapped to k in b holds a key with the bits of v
InSet(b, k, v) == \E m \in Members(b, k) : m.bits = v.bits

\* every bucket but k is in the store what it was before the last call
OthersKept ==
    \A j \in BucketKeys \ {kvcall.k} :
        /\ j \in DOMAIN kvstore <=> j \in DOMAIN kvcall.before
        /\ j \in DOMAIN kvstore => kvstore[j] = kvcall.before[j]

\* C12 (bucket store Remove): Remove(k, v) returns true exactly when v was in
\* the set mapped to k; a true return takes exactly v out of that set, drops
\* the entry k only when the set is left empty, and leaves every other bucket
\* alone; a false return leaves the store unchanged.
C12_StoreRemove ==
    kvcall.op = "remove"
    => LET was == Members(kvcall.before, kvcall.k)
           now == Members(kvstore, kvcall.k)
       IN  /\ kvcall.ret <=> InSet(kvcall.before, kvcall.k, kvcall.v)
           /\ kvcall.ret
                  => /\ now = {m \in was : m.bits # kvcall.v.bits}
                     /\ kvcall.k \in DOMAIN kvstore <=> now # {}
                     /\ OthersKept
           /\ ~kvcall.ret => kvstore = kvcall.before

\* C13 (bucket store Add): Add(k, v) returns true exactly when no key with the
\* bits of v was in the set mapped to k; afterwards that set holds exactly one
\* key with the bits of v; a false return leaves the store unchanged and no
\* bucket other than k changes.
C13_StoreAdd ==
    kvcall.op = "add"
    => /\ kvcall.ret <=> ~InSet(kvcall.before, kvcall.k, kvcall.v)
       /\ Cardinality({m \in Members(kvstore, kvcall.k) : m.bits = kvcall.v.bits}) = 1
       /\ ~kvcall.ret => kvstore = kvcall.before
       /\ OthersKept

\* the keys the handler inserted for the first n elements of the last request
Applied(n) == {SafeScalar(batch.request[j]) : j \in 1 .. n}

\* C19 (batch add): the response to a request of n keys holds n results in
\* request order; result i names key i and reports it added exactly when the
\* key was neither indexed before the request nor among keys 1 .. i-1 of the
\* request, so a repeated key is reported added at most at its first
\* occurrence.
C19_BatchAdd ==
    batch.called
    => /\ batch.status = 200
       /\ Len(batch.response) = Len(batch.request)
       /\ \A i \in DOMAIN batch.request :
              /\ batch.response[i].scalar = SafeScalar(batch.request[i])
              /\ batch.response[i].added
                     <=> SafeScalar(batch.request[i]) \notin batch.pre \cup Applied(i - 1)

\* a request repeated a key that was not indexed: added first, not added later
C19_Witness ==
    /\ batch.called
    /\ \E i, j \in DOMAIN batch.request :
           /\ i < j
           /\ batch.request[i] = batch.request[j]
           /\ batch.request[i] \notin batch.pre
           /\ batch.response[i].added
           /\ ~batch.response[j].added

\* every goroutine has returned from the calls it made
Quiescent == \A t \in Threads : pc[t].at = "ret"

\* a key with the bits x is in the zero-table bucket of its sub-word in partition i
InZero(i, x) ==
    LET b == KeyInt(SubWord(partitions[i], x), partitions[i].mask)
    IN  b \in DOMAIN zero_kv[i] /\ \E m \in Range(zero_kv[i][b]) : m.bits = x

\* the one-table buckets of partition i a key with the bits x belongs in that
\* hold such a key
OneHits(i, x) ==
    LET perms == KeyPermutations(SubWord(partitions[i], x), partitions[i].mask)
    IN  {j \in DOMAIN perms :
            LET b == KeyInt(perms[j], partitions[i].mask)
            IN  b \in DOMAIN one_kv[i] /\ \E m \in Range(one_kv[i][b]) : m.bits = x}

\* C22 (one-table follows zero-table): once an Insert(x) and a Remove(x) of
\* two goroutines have both returned, x is in every partition either in its
\* zero-table bucket and in all its one-table buckets, or in none of them.
C22_OneFollowsZero ==
    \A t, u \in Threads :
        (/\ Quiescent
         /\ pc[t].op = "insert" /\ pc[u].op = "remove"
         /\ pc[t].key.bits = pc[u].key.bits
         /\ pc[t].key.bits \in WidthKeys(bits))
        => \A i \in DOMAIN partitions :
               LET x == pc[t].key.bits
               IN  \/ InZero(i, x) /\ OneHits(i, x) = 1 .. partitions[i].mask
                   \/ ~InZero(i, x) /\ OneHits(i, x) = {}

\* the table goroutine t is inside a locked section of, "none" outside
Section(t) ==
    IF pc[t].at \in {"zero", "zero_write", "zero_read"} THEN "zero"
    ELSE IF pc[t].at \in {"one", "one_write", "one_read"} THEN "one"
    ELSE "none"

\* C23 (mutual exclusion): no two goroutines are at the same time inside the
\* locked sections of the same table of the same partition unless both of
\* them are Find calls, which only read.
C23_MutualExclusion ==
    \A t, u \in Threads :
        (/\ t # u
         /\ Section(t) # "none"
         /\ Section(t) = Section(u)
         /\ pc[t].part = pc[u].part)
        => (pc[t].op = "find" /\ pc[u].op = "find")

C25_OneInsertWins ==
    \A t, u \in Threads :
        (/\ t # u
         /\ Quiescent
         /\ calls = 2
         /\ pc[t].op = "insert" /\ pc[u].op = "insert"
         /\ pc[t].key.bits = pc[u].key.bits)
        => (pc[t].any # pc[u].any)

\* C26 (all or none across partitions): once every goroutine has returned
\* from its Insert and Remove calls, each key is in the zero-table of every
\* partition or of no partition.
C26_AllOrNone ==
    Quiescent
    => \A x \in WidthKeys(bits) :
           \/ \A i \in DOMAIN partitions : InZero(i, x)
           \/ \A i \in DOMAIN partitions : ~InZero(i, x)

\* C21 (table invariants P1/P2): after any sequence of sequential Insert and
\* Remove calls, every key whose last operation was Insert is, in every
\* partition, in the zero-table bucket of its sub-word and in the one-table
\* bucket of each single-bit flip of its sub-word (keys of the index's width).
C21_TableInvariants ==
    OnlyWidthKeys
    => \A x \in lastIns :
           \A i \in DOMAIN partitions :
               /\ InZero(i, x)
               /\ OneHits(i, x) = 1 .. partitions[i].mask

\* the buckets of the tables of the index: <<table, partition, bucket key>>
Buckets ==
    {<<tb, i, b>> \in {"zero", "one"} \X (DOMAIN partitions) \X (0 .. 2 ^ MaxBits) :
        b \in DOMAIN (IF tb = "zero" THEN zero_kv[i] ELSE one_kv[i])}

\* the keys of a bucket
BucketOf(e) == IF e[1] = "zero" THEN zero_kv[e[2]][e[3]] ELSE one_kv[e[2]][e[3]]

\* C27 (bucket store invariants): after any sequence of Insert and Remove
\* calls every bucket that exists in a table holds at least one key, and no
\* bucket holds two keys with the same bits.
C27_BucketInvariants ==
    \A e \in Buckets :
        /\ BucketOf(e) # <<>>
        /\ \A m, n \in DOMAIN BucketOf(e) :
               BucketOf(e)[m].bits = BucketOf(e)[n].bits => m = n

\* the key objects in bucket b of the table kv, none when there is no bucket
Held(kv, b) == IF b \in DOMAIN kv THEN Range(kv[b]) ELSE {}

\* the bucket keys of the single-bit flips of sub-word v in a partition of width w
Flips(v, w) == {KeyInt(Xor(v, 2 ^ j), w) : j \in 0 .. w - 1}

\* C28 (frame of Partition.Insert): on the tables of any partition, after any
\* sequence of calls, Partition.Insert(x) returns false and changes neither
\* table when the zero-table bucket of x's sub-word holds a key equal to x;
\* otherwise it returns true, adds x to that zero-table bucket and to the
\* one-table buckets of the width single-bit flips of the sub-word, which
\* are distinct and did not hold x, and the members of every other bucket
\* stay what they were.
C28_InsertFrame ==
    \A key \in UpdateObjs :
        \A i \in DOMAIN partitions :
            LET p     == partitions[i]
                sub   == KeyInt(SubWord(p, key.bits), p.mask)
                flips == Flips(SubWord(p, key.bits), p.mask)
                r     == PartitionInsert(store, p, zero_kv[i], one_kv[i], key)
            IN  IF \E m \in Held(zero_kv[i], sub) : m.bits = key.bits
                THEN /\ ~r.ok
                     /\ r.zero = zero_kv[i]
                     /\ r.one = one_kv[i]
                ELSE /\ r.ok
                     /\ Cardinality(flips) = p.mask
                     /\ \A b \in 0 .. 2 ^ MaxBits :
                            /\ Held(r.zero, b) =
                                   Held(zero_kv[i], b) \cup (IF b = sub THEN {key} ELSE {})
                            /\ Held(r.one, b) =
                                   Held(one_kv[i], b) \cup (IF b \in flips THEN {key} ELSE {})
                            /\ b \in flips
                               => \A m \in Held(one_kv[i], b) : m.bits # key.bits

\* an Insert returned true on an index that held another key and has a
\* partition of width two or more, where the key now is in the zero-table
\* bucket and in every one-table bucket of its flips
C28_Witness ==
    /\ last.op = "insert"
    /\ last.ret
    /\ Cardinality(lastIns) = 2
    /\ \E i \in DOMAIN partitions :
           /\ partitions[i].mask >= 2
           /\ InZero(i, last.key.bits)
           /\ OneHits(i, last.key.bits) = 1 .. partitions[i].mask

\* C29 (exact match dominates): in every partition, after any sequence of
\* sequential calls, Partition.Find(q) reports every key whose last operation
\* was Insert and whose sub-word equals that of q, and reports it with tag 0,
\* never with tag 1.
C29_ExactDominates ==
    \A q \in QueryObjs(bits) :
        \A i \in DOMAIN partitions :
            \A x \in lastIns :
                SubWord(partitions[i], x) = SubWord(partitions[i], q.bits)
                => LET f == PartitionFind(partitions[i], zero_kv[i], one_kv[i], q.bits)
                   IN  /\ \E k \in DOMAIN f : k.bits = x
                       /\ \A k \in DOMAIN f : k.bits = x => f[k] = 0

\* the last call was a Find(q) of a key of the index's width on an index of
\* two or more partitions while a key other than q with the sub-word of q in
\* a partition of width one or more was in the zero-table bucket and in
\* the one-table buckets that Find(q) reads in that partition
C29_Witness ==
    /\ last.op = "find"
    /\ last.key.bits \in WidthKeys(bits)
    /\ tolerance >= 1
    /\ \E i \in DOMAIN partitions :
       \E x \in (lastIns \cap WidthKeys(bits)) \ {last.key.bits} :
           /\ partitions[i].mask >= 1
           /\ SubWord(partitions[i], x) = SubWord(partitions[i], last.key.bits)
           /\ InZero(i, x)
           /\ OneHits(i, x) = 1 .. partitions[i].mask

\* the tally of key object x for the query q: <<the number of partitions whose
\* Partition.Find(q) reports x with tag 0, the number reporting it with tag 1>>
Tally(q, x) ==
    LET tag(i) == PartitionFind(partitions[i], zero_kv[i], one_kv[i], q)
    IN  <<Cardinality({i \in DOMAIN partitions : x \in DOMAIN tag(i) /\ tag(i)[x] = 0}),
          Cardinality({i \in DOMAIN partitions : x \in DOMAIN tag(i) /\ tag(i)[x] = 1})>>

\* the number of bit positions in which the keys a and b of these callers differ
Apart(a, b) == Cardinality({i \in 0 .. MaxWideBits : Bit(a, i) # Bit(b, i)})

\* the rule of the specification on a tally <<e, o>> under tolerance k
Rule(k, e, o) ==
    IF k % 2 = 0
    THEN e >= 1 \/ o >= 2
    ELSE (e >= 1 /\ e + o >= 2) \/ o >= 3

\* C30 (admission rule): after any sequence of sequential calls, for every
\* query q and every key x, Find(q) returns x exactly when the distance h
\* between q and x is at most the tolerance and the tally <<e, o>> of x passes
\* the rule; the value returned with x is h.
C30_Admission ==
    \A q \in WideQueries :
        LET res == PartitioningFind(q.bits)
        IN  \A x \in Stored(zero_kv) \cup Stored(one_kv) \cup DOMAIN res :
                LET h == Apart(q.bits, x.bits)
                    c == Tally(q.bits, x)
                IN  /\ x \in DOMAIN res <=> (h <= tolerance /\ Rule(tolerance, c[1], c[2]))
                    /\ x \in DOMAIN res => res[x] = h

\* a Find under an odd tolerance returned a key that no partition reports as
\* an exact match and three partitions report as a 1-match
C30_Witness ==
    /\ last.op = "find"
    /\ tolerance % 2 = 1
    /\ \E x \in DOMAIN last.res : Tally(last.key.bits, x) = <<0, 3>>

\* the keys of bucket k of the store kv
BucketSet(kv, k) == IF k \in DOMAIN kv THEN Range(kv[k]) ELSE {}

\* the bucket k after op1(k, v1) then op2(k, v2) run one after the other on
\* the store the goroutines started from
InOrder(op1, v1, op2, v2, k) ==
    LET c0 == [kv |-> kvcall.before, recent |-> <<k>>, size |-> lru_size]
        run(c, op, v) == IF op = "add" THEN LruKVAdd(c, k, v) ELSE LruKVRemove(c, k, v)
        r1 == run(c0, op1, v1)
        r2 == run([kv |-> r1.kv, recent |-> r1.recent, size |-> lru_size], op2, v2)
    IN  BucketSet(r2.kv, k)

\* C31 (LRU store operations are atomic): when two goroutines have each made
\* one call on the same bucket k and both have returned, (a) two Add calls of
\* keys with different bits, neither in the bucket before, have both returned
\* true and both keys are in the bucket; (b) after an Add and a Remove the
\* bucket holds what one of the two sequential orders of the calls leaves.
C31_LruAtomic ==
    \A t, u \in Threads :
        (/\ t # u
         /\ Quiescent
         /\ calls = 2
         /\ pc[t].op \in {"add", "remove"} /\ pc[u].op \in {"add", "remove"}
         /\ pc[t].part = pc[u].part)
        => LET k == pc[t].part
               had(v) == \E m \in BucketSet(kvcall.before, k) : m.bits = v.bits
           IN  /\ (/\ pc[t].op = "add" /\ pc[u].op = "add"
                   /\ pc[t].key.bits # pc[u].key.bits
                   /\ ~had(pc[t].key) /\ ~had(pc[u].key))
                  => /\ pc[t].any /\ pc[u].any
                     /\ {pc[t].key, pc[u].key} \subseteq BucketSet(kvstore, k)
               /\ (pc[t].op = "add" /\ pc[u].op = "remove")
                  => BucketSet(kvstore, k) \in
                         {InOrder("add", pc[t].key, "remove", pc[u].key, k),
                          InOrder("remove", pc[u].key, "add", pc[t].key, k)}

\* C32 (evictions only lose results): on the index over LRU stores, after any
\* sequence of sequential Insert, Remove and Find calls, every key a Find(q)
\* returns is a key whose last operation was Insert, returned with its
\* distance from q, which is at most the tolerance.
C32_EvictionsOnlyLose ==
    last.op = "find"
    => \A x \in DOMAIN last.res :
           /\ x.bits \in lastIns
           /\ last.res[x] = Distance(last.key.bits, x.bits)
           /\ last.res[x] <= tolerance

\* C33 (one index per database key): under concurrent add, query and delete
\* requests for one database key at most one Partitioning is ever created
\* and registered, and a query that began after the add of a scalar had
\* completed, with no delete request ever naming that scalar, finds it.
C33_OneIndex ==
    /\ databases.made <= 1
    /\ \A t \in Threads :
           LET r == requests.run[t]
           IN  (/\ r.op = "query" /\ r.at = "ret"
                /\ r.scalar \in r.seen
                /\ r.scalar \notin requests.deleted)
               => r.found

\* C34 (key transformations are pure): Key.Transform(shift, mask) returns a
\* key whose bit j is bit j + shift of the receiver where the mask has bit j
\* and 0 elsewhere; Key.Permutations(w) returns exactly w keys, the i-th of
\* which differs from the receiver in bit i and in no other bit; and after
\* either call the receiver and every key that existed before the call hold
\* the values they held before it.
C34_KeyPure ==
    LET recv == keycall.before[keycall.k]
        Kept == \A a \in 1 .. Len(keycall.before) : heap[a] = keycall.before[a]
    IN  /\ keycall.op = "Transform" =>
               /\ Len(keycall.ret) = 1
               /\ \A j \in 0 .. MaxKeyWidth :
                      Bit(heap[keycall.ret[1]], j) =
                          Bit(recv, j + keycall.shift) * Bit(keycall.mask, j)
               /\ Kept
        /\ keycall.op = "Permutations" =>
               /\ Len(keycall.ret) = keycall.count
               /\ \A i \in 1 .. keycall.count : \A j \in 0 .. MaxKeyWidth :
                      (Bit(heap[keycall.ret[i]], j) # Bit(recv, j)) <=> (j = i - 1)
               /\ Kept

\* a Transform that shifted and masked bits away from a two-byte key, made
\* after Permutations had been called on it
C34_Witness ==
    /\ keycall.op = "Transform"
    /\ keycall.shift > 0
    /\ keycall.before[keycall.k] > 255
    /\ heap[keycall.ret[1]] # Rsh(keycall.before[keycall.k], keycall.shift)
    /\ heap[keycall.ret[1]] # 0
    /\ Len(keycall.before) > 2

====
